---- MODULE Spec2Model ----
(***************************************************************************)
(* Model of the NovelAI lorebook tools: the record <-> text converter of   *)
(* lorebook_converter.py (serializer, line parser, category resolver,      *)
(* default synthesizer).  Strings are TLA+ strings, handled character by   *)
(* character the way the Python string methods handle them.                *)
(***************************************************************************)
EXTENDS Integers, Sequences, FiniteSets, TLC

(***************************************************************************)
(* Python string primitives                                                *)
(***************************************************************************)

\* the character at 1-based position k of s
CharAt(s, k) == SubSeq(s, k, k)

\* characters removed by str.strip()
Whitespace == {" ", "\t", "\n", "\r", "\f"}

Digits == <<"0", "1", "2", "3", "4", "5", "6", "7", "8", "9">>

UpperCase == <<"A", "B", "C", "D", "E", "F", "G", "H", "I", "J", "K", "L", "M",
               "N", "O", "P", "Q", "R", "S", "T", "U", "V", "W", "X", "Y", "Z">>

LowerCase == <<"a", "b", "c", "d", "e", "f", "g", "h", "i", "j", "k", "l", "m",
               "n", "o", "p", "q", "r", "s", "t", "u", "v", "w", "x", "y", "z">>

\* str.startswith(p)
StartsWith(s, p) == Len(s) >= Len(p) /\ SubSeq(s, 1, Len(p)) = p

\* s[k:] for a 0-based k
DropFirst(s, k) == SubSeq(s, k + 1, Len(s))

\* position of the first occurrence of character c in s at or after position
\* k (1-based), 0 when there is none: str.find
RECURSIVE FindFrom(_, _, _)
FindFrom(s, c, k) ==
    IF k > Len(s) THEN 0
    ELSE IF CharAt(s, k) = c THEN k
    ELSE FindFrom(s, c, k + 1)

Find(s, c) == FindFrom(s, c, 1)

\* c in s
Contains(s, c) == Find(s, c) # 0

RECURSIVE LStrip(_)
LStrip(s) ==
    IF Len(s) > 0 /\ CharAt(s, 1) \in Whitespace THEN LStrip(DropFirst(s, 1)) ELSE s

RECURSIVE RStrip(_)
RStrip(s) ==
    IF Len(s) > 0 /\ CharAt(s, Len(s)) \in Whitespace
    THEN RStrip(SubSeq(s, 1, Len(s) - 1)) ELSE s

\* str.strip()
Strip(s) == RStrip(LStrip(s))

\* str.split(c, 1): at most one cut, at the first c
Split1(s, c) ==
    LET p == Find(s, c)
    IN  IF p = 0 THEN <<s>>
        ELSE <<SubSeq(s, 1, p - 1), DropFirst(s, p)>>

\* the pieces of s[lo..hi] (1-based, inclusive) cut at every c; a long range
\* is cut first at the first c of its second half
RECURSIVE SplitRange(_, _, _, _)
SplitRange(s, c, lo, hi) ==
    LET mid == (lo + hi) \div 2
        p == IF hi - lo < 32 THEN FindFrom(SubSeq(s, 1, hi), c, lo)
                             ELSE FindFrom(SubSeq(s, 1, hi), c, mid)
        left == SplitRange(s, c, lo, mid - 1)
    IN  IF p # 0 THEN SplitRange(s, c, lo, p - 1) \o SplitRange(s, c, p + 1, hi)
        ELSE IF hi - lo < 32 THEN <<SubSeq(s, lo, hi)>>
        ELSE [left EXCEPT ![Len(left)] = @ \o SubSeq(s, mid, hi)]

\* str.split(c): cut at every c
Split(s, c) == SplitRange(s, c, 1, Len(s))

\* str.split(c, n): at most n cuts
RECURSIVE SplitN(_, _, _)
SplitN(s, c, n) ==
    LET p == Find(s, c)
    IN  IF n = 0 \/ p = 0 THEN <<s>>
        ELSE <<SubSeq(s, 1, p - 1)>> \o SplitN(DropFirst(s, p), c, n - 1)

\* c * n
RECURSIVE Repeat(_, _)
Repeat(c, n) ==
    IF n = 0 THEN ""
    ELSE IF n % 2 = 0 THEN Repeat(c, n \div 2) \o Repeat(c, n \div 2)
    ELSE c \o Repeat(c, n - 1)

\* sep.join(parts[lo..hi])
RECURSIVE JoinRange(_, _, _, _)
JoinRange(parts, sep, lo, hi) ==
    IF lo > hi THEN ""
    ELSE IF lo = hi THEN parts[lo]
    ELSE JoinRange(parts, sep, lo, (lo + hi) \div 2) \o sep
         \o JoinRange(parts, sep, ((lo + hi) \div 2) + 1, hi)

\* sep.join(parts)
Join(parts, sep) == JoinRange(parts, sep, 1, Len(parts))

LowerChar(c) ==
    IF \E k \in 1..26 : UpperCase[k] = c
    THEN LowerCase[CHOOSE k \in 1..26 : UpperCase[k] = c]
    ELSE c

\* str.lower()
RECURSIVE Lower(_)
Lower(s) == IF Len(s) = 0 THEN "" ELSE LowerChar(CharAt(s, 1)) \o Lower(DropFirst(s, 1))

\* a decimal digit: the characters int() reads as digits
IsDigitChar(c) == \E k \in 1..10 : Digits[k] = c

DigitVal(c) == (CHOOSE k \in 1..10 : Digits[k] = c) - 1

\* U+00B2 SUPERSCRIPT TWO, a character that str.isdigit() accepts although it
\* is no decimal digit (int() rejects it).  The strings of the model are
\* ASCII; in them the character ^ stands for U+00B2.
SuperscriptTwo == "^"

\* characters that str.isdigit() accepts although they are not decimal digits
SuperscriptDigits == {SuperscriptTwo}

\* str.isdigit(): non-empty and every character a digit, decimal or not
IsDigit(s) ==
    /\ Len(s) > 0
    /\ \A k \in 1..Len(s) : IsDigitChar(CharAt(s, k)) \/ CharAt(s, k) \in SuperscriptDigits

\* the digit groups int() accepts after the sign: digits, single underscores
\* allowed between two digits only
IsDigitGroups(s) ==
    /\ Len(s) > 0
    /\ \A k \in 1..Len(s) : IsDigitChar(CharAt(s, k)) \/ CharAt(s, k) = "_"
    /\ CharAt(s, 1) # "_"
    /\ CharAt(s, Len(s)) # "_"
    /\ \A k \in 1..(Len(s) - 1) : ~(CharAt(s, k) = "_" /\ CharAt(s, k + 1) = "_")

Unsigned(s) ==
    IF Len(s) > 0 /\ CharAt(s, 1) \in {"+", "-"} THEN DropFirst(s, 1) ELSE s

\* int(s) does not raise ValueError
IsIntLiteral(s) == IsDigitGroups(Unsigned(Strip(s)))

RECURSIVE DigitsValue(_, _)
DigitsValue(s, acc) ==
    IF Len(s) = 0 THEN acc
    ELSE IF CharAt(s, 1) = "_" THEN DigitsValue(DropFirst(s, 1), acc)
    ELSE DigitsValue(DropFirst(s, 1), acc * 10 + DigitVal(CharAt(s, 1)))

\* int(s), for an s that IsIntLiteral
IntValue(s) ==
    LET t == Strip(s)
    IN  IF Len(t) > 0 /\ CharAt(t, 1) = "-" THEN 0 - DigitsValue(Unsigned(t), 0)
        ELSE DigitsValue(Unsigned(t), 0)

RECURSIVE NatToStr(_)
NatToStr(n) == IF n < 10 THEN Digits[n + 1] ELSE NatToStr(n \div 10) \o Digits[(n % 10) + 1]

\* str(n) for an integer n
IntToStr(n) == IF n < 0 THEN "-" \o NatToStr(0 - n) ELSE NatToStr(n)

\* str(b) for a boolean b
BoolToStr(b) == IF b THEN "True" ELSE "False"

\* the body of repr(s): backslash, newline, tab, carriage return and the
\* quote character q escaped
RECURSIVE ReprBody(_, _)
ReprBody(s, q) ==
    IF Len(s) = 0 THEN ""
    ELSE LET c == CharAt(s, 1)
             e == IF c = "\\" THEN "\\\\"
                  ELSE IF c = "\n" THEN "\\n"
                  ELSE IF c = "\t" THEN "\\t"
                  ELSE IF c = "\r" THEN "\\r"
                  ELSE IF c = q THEN "\\" \o q
                  ELSE c
         IN  e \o ReprBody(DropFirst(s, 1), q)

\* repr(s) of a string: single quotes, unless s has a single quote and no
\* double quote
PyRepr(s) ==
    IF Contains(s, "'") /\ ~Contains(s, "\"")
    THEN "\"" \o ReprBody(s, "\"") \o "\""
    ELSE "'" \o ReprBody(s, "'") \o "'"

(***************************************************************************)
(* Record model                                                            *)
(***************************************************************************)

\* a settings value is a boolean, an integer or a string; the tag t says which
SettingBool(b) == [t |-> "bool", b |-> b, n |-> 0, s |-> ""]
SettingInt(n) == [t |-> "int", b |-> FALSE, n |-> n, s |-> ""]
SettingStr(s) == [t |-> "str", b |-> FALSE, n |-> 0, s |-> s]

\* str(value) of a settings value
SettingToStr(v) ==
    IF v.t = "bool" THEN BoolToStr(v.b)
    ELSE IF v.t = "int" THEN IntToStr(v.n)
    ELSE v.s

\* a dict is the sequence of its items in insertion order, keys unique
DictHas(d, k) == \E x \in 1..Len(d) : d[x].key = k

\* d[k] = v
DictSet(d, k, v) ==
    IF DictHas(d, k)
    THEN [x \in 1..Len(d) |-> IF d[x].key = k THEN [key |-> k, value |-> v] ELSE d[x]]
    ELSE Append(d, [key |-> k, value |-> v])

\* the items of a dict, order aside (dict equality ignores insertion order)
DictItems(d) == {d[x] : x \in 1..Len(d)}

\* uuid.uuid4(): the n-th identifier generated, distinct from every other one
\* and from every identifier written in a text or a document
Uuid(n) == "uuid-" \o IntToStr(n)

get_default_context_config ==
    [prefix |-> "",
     suffix |-> "\n",
     tokenBudget |-> 100,
     reservedTokens |-> 0,
     budgetPriority |-> 400,
     trimDirection |-> "trimBottom",
     insertionType |-> "newline",
     maximumTrimType |-> "sentence",
     insertionPosition |-> -1]

\* the category record opened by a Category: header of the categories section
NewCategory(name, id) ==
    [name |-> name,
     id |-> id,
     enabled |-> TRUE,
     createSubcontext |-> FALSE,
     subcontextSettings |-> get_default_context_config,
     useCategoryDefaults |-> FALSE,
     categoryDefaults |-> <<>>,
     categoryBiasGroups |-> <<>>,
     settings |-> <<>>]

\* NewEntry with the search range of another default
NewEntry_WrongSearchRange(id, stamp) ==
    [text |-> "",
     contextConfig |-> get_default_context_config,
     lastUpdatedAt |-> stamp,
     displayName |-> "",
     id |-> id,
     keys |-> <<>>,
     searchRange |-> 100,
     enabled |-> TRUE,
     forceActivation |-> FALSE,
     keyRelative |-> FALSE,
     nonStoryActivatable |-> FALSE,
     category |-> "",
     loreBiasGroups |-> <<>>,
     advancedConditions |-> <<>>]

\* the entry record opened by an ENTRY # header
NewEntry(id, stamp) ==
    [text |-> "",
     contextConfig |-> get_default_context_config,
     lastUpdatedAt |-> stamp,
     displayName |-> "",
     id |-> id,
     keys |-> <<>>,
     searchRange |-> 1000,
     enabled |-> TRUE,
     forceActivation |-> FALSE,
     keyRelative |-> FALSE,
     nonStoryActivatable |-> FALSE,
     category |-> "",
     loreBiasGroups |-> <<>>,
     advancedConditions |-> <<>>]

\* the record the parser starts from
EmptyLorebook ==
    [lorebookVersion |-> 6,
     entries |-> <<>>,
     categories |-> <<>>,
     settings |-> <<[key |-> "orderByKeyLocations", value |-> SettingBool(FALSE)]>>]

\* d.get(k, default)
DictGet(d, k, default) ==
    IF DictHas(d, k) THEN d[CHOOSE x \in 1..Len(d) : d[x].key = k].value ELSE default

\* the concatenation of a sequence of sequences
RECURSIVE Flatten(_)
Flatten(ss) == IF Len(ss) = 0 THEN <<>> ELSE ss[1] \o Flatten(Tail(ss))

(***************************************************************************)
(* Serializer: _generate_txt_content                                       *)
(***************************************************************************)

\* the lines of one category of the CATEGORIES section
CategoryLines(category) ==
    <<"Category: " \o category.name,
      "ID: " \o category.id,
      "Enabled: " \o BoolToStr(category.enabled)>>
    \o (IF category.createSubcontext THEN <<"Creates Subcontext: Yes">> ELSE <<>>)
    \o <<"">>

\* the CONTENT block: Title and Description when the text starts with the
\* ---- marker and has three parts, else the raw text
ContentLines(text) ==
    LET text_parts == SplitN(text, "\n", 2)
    IN  IF StartsWith(text, "----\n") /\ Len(text_parts) >= 3
        THEN <<"Title: " \o text_parts[2], "Description: " \o text_parts[3]>>
        ELSE <<text>>

ContextConfigLines(context_config) ==
    <<"",
      "CONTEXT CONFIGURATION:",
      Repeat("-", 25),
      IF context_config.prefix # "" THEN "Prefix: " \o PyRepr(context_config.prefix)
                                    ELSE "Prefix: ''",
      IF context_config.suffix # "" THEN "Suffix: " \o PyRepr(context_config.suffix)
                                    ELSE "Suffix: '\\n'",
      "Token Budget: " \o IntToStr(context_config.tokenBudget),
      "Budget Priority: " \o IntToStr(context_config.budgetPriority),
      "Trim Direction: " \o context_config.trimDirection>>

ConditionLines(condition) ==
    <<"  Type: " \o condition.type,
      "  Key: " \o condition.key,
      "  Range: " \o IntToStr(condition.range),
      "">>

AdvancedConditionsLines(advanced_conditions) ==
    <<"", "ADVANCED CONDITIONS:", Repeat("-", 22)>>
    \o (IF Len(advanced_conditions) > 0
        THEN Flatten([k \in 1..Len(advanced_conditions) |->
                         ConditionLines(advanced_conditions[k])])
        ELSE <<"  (No advanced conditions)">>)

BiasLines(bias) ==
    (IF Len(bias.phrases) > 0 THEN <<"  Phrases: " \o Join(bias.phrases, ", ")>> ELSE <<>>)
    \o <<"  Bias: " \o IntToStr(bias.bias),
         "  Enabled: " \o BoolToStr(bias.enabled),
         "">>

BiasGroupsLines(bias_groups) ==
    <<"", "LORE BIAS GROUPS:", Repeat("-", 18)>>
    \o (IF Len(bias_groups) > 0
        THEN Flatten([k \in 1..Len(bias_groups) |-> BiasLines(bias_groups[k])])
        ELSE <<"  (No lore bias groups)">>)

\* the block of the n-th entry
EntryLines(entry, n, category_names) ==
    <<"ENTRY #" \o IntToStr(n),
      Repeat("=", 60),
      "Display Name: " \o entry.displayName,
      "ID: " \o entry.id,
      "Category: " \o DictGet(category_names, entry.category, "Unknown")
          \o " (" \o entry.category \o ")",
      "Activation Keys: " \o Join(entry.keys, ", "),
      "Enabled: " \o BoolToStr(entry.enabled),
      "Force Activation: " \o BoolToStr(entry.forceActivation),
      "Search Range: " \o IntToStr(entry.searchRange),
      "",
      "CONTENT:",
      Repeat("-", 20)>>
    \o ContentLines(entry.text)
    \o ContextConfigLines(entry.contextConfig)
    \o AdvancedConditionsLines(entry.advancedConditions)
    \o BiasGroupsLines(entry.loreBiasGroups)
    \o <<"", "">>

\* the "Exported:" line: strftime('%Y-%m-%d %H:%M:%S') of the clock, rendered
\* here as the clock's number
ExportedLine(stamp) == "Exported: " \o IntToStr(stamp)

\* _generate_txt_content, with category_names the converter's
\* reverse_category_map and stamp the clock
generate_txt_content(lorebook, category_names, stamp) ==
    Join(<<Repeat("=", 80),
           "NOVELAI LOREBOOK",
           Repeat("=", 80),
           "Version: " \o IntToStr(lorebook.lorebookVersion),
           ExportedLine(stamp),
           "">>
         \o (IF Len(lorebook.categories) > 0
             THEN <<"CATEGORIES", Repeat("-", 40)>>
                  \o Flatten([k \in 1..Len(lorebook.categories) |->
                                 CategoryLines(lorebook.categories[k])])
             ELSE <<>>)
         \o (IF Len(lorebook.entries) > 0
             THEN <<"LORE ENTRIES", Repeat("-", 40)>>
                  \o Flatten([k \in 1..Len(lorebook.entries) |->
                                 EntryLines(lorebook.entries[k], k, category_names)])
             ELSE <<>>)
         \o (IF Len(lorebook.settings) > 0
             THEN <<"SETTINGS", Repeat("-", 40)>>
                  \o [k \in 1..Len(lorebook.settings) |->
                         lorebook.settings[k].key \o ": "
                         \o SettingToStr(lorebook.settings[k].value)]
             ELSE <<>>),
         "\n")

\* the category map json_to_txt builds before it serializes: every category
\* of the document entered into the converter's map, a later one overwriting
RECURSIVE BuildCategoryMap(_, _)
BuildCategoryMap(map, cats) ==
    IF Len(cats) = 0 THEN map
    ELSE BuildCategoryMap(DictSet(map, cats[1].id, cats[1].name), Tail(cats))

(***************************************************************************)
(* Category resolver                                                       *)
(***************************************************************************)

\* the category record minted by the resolver
new_category(category_name, id) ==
    [name |-> category_name,
     id |-> id,
     enabled |-> TRUE,
     createSubcontext |-> FALSE,
     subcontextSettings |-> get_default_context_config,
     useCategoryDefaults |-> FALSE,
     categoryDefaults |-> <<>>,
     categoryBiasGroups |-> <<>>,
     settings |-> <<>>]

\* index of the first category whose name is category_name, 0 if none
FirstByName(cats, category_name) ==
    IF \E k \in 1..Len(cats) : cats[k].name = category_name
    THEN CHOOSE k \in 1..Len(cats) :
            /\ cats[k].name = category_name
            /\ \A m \in 1..(k - 1) : cats[m].name # category_name
    ELSE 0

\* the resolver without its scan: every call mints
find_or_create_category_id_AlwaysMints(category_name, cats, uuid_count) ==
    [id |-> Uuid(uuid_count + 1),
     categories |-> Append(cats, new_category(category_name, Uuid(uuid_count + 1))),
     uuid_count |-> uuid_count + 1]

\* _find_or_create_category_id: the id returned, the categories list after the
\* call and the number of identifiers generated so far
find_or_create_category_id(category_name, cats, uuid_count) ==
    LET k == FirstByName(cats, category_name)
    IN  IF k # 0
        THEN [id |-> cats[k].id, categories |-> cats, uuid_count |-> uuid_count]
        ELSE [id |-> Uuid(uuid_count + 1),
              categories |-> Append(cats, new_category(category_name, Uuid(uuid_count + 1))),
              uuid_count |-> uuid_count + 1]

\* _get_category_name
get_category_name(category_id, cats) ==
    IF \E k \in 1..Len(cats) : cats[k].id = category_id
    THEN cats[CHOOSE k \in 1..Len(cats) :
                 /\ cats[k].id = category_id
                 /\ \A m \in 1..(k - 1) : cats[m].id # category_id].name
    ELSE "Unknown"

(***************************************************************************)
(* Parser: one iteration of the main loop of _parse_txt_content            *)
(*                                                                         *)
(* The parser state st is a record of the locals of _parse_txt_content:    *)
(*   lorebook, current_section, current_entry, current_category            *)
(* (an optional record is the empty sequence for None, else <<record>>),   *)
(* with uuid_count, the number of identifiers generated so far, raised,    *)
(* set when a statement raises an exception that nothing catches, and the  *)
(* provenance of the records: opened_categories / opened_entries list the  *)
(* header lines that opened a record, category_origin / entry_origin give  *)
(* for each element of the output lists the header line that opened it (0  *)
(* for a category minted by the resolver), current_category_line and       *)
(* current_entry_line the header line of the record in progress.           *)
(***************************************************************************)

ParserStart ==
    [lorebook |-> EmptyLorebook,
     current_section |-> "none",
     current_entry |-> <<>>,
     current_category |-> <<>>,
     uuid_count |-> 0,
     raised |-> FALSE,
     opened_categories |-> <<>>,
     opened_entries |-> <<>>,
     category_origin |-> <<>>,
     entry_origin |-> <<>>,
     current_category_line |-> 0,
     current_entry_line |-> 0]

\* an exception leaves the function
Raise(st) == [st EXCEPT !.raised = TRUE]

\* a flush that appends a category rebuilt from name and id alone
FlushCategory_DropsFields(st) ==
    IF st.current_category # <<>>
    THEN [st EXCEPT !.lorebook.categories =
                        Append(@, NewCategory(st.current_category[1].name,
                                              st.current_category[1].id)),
                    !.category_origin = Append(@, st.current_category_line)]
    ELSE st

\* lorebook['categories'].append(current_category), when there is one
FlushCategory(st) ==
    IF st.current_category # <<>>
    THEN [st EXCEPT !.lorebook.categories = Append(@, st.current_category[1]),
                    !.category_origin = Append(@, st.current_category_line)]
    ELSE st

\* lorebook['entries'].append(current_entry), when there is one
FlushEntry(st) ==
    IF st.current_entry # <<>>
    THEN [st EXCEPT !.lorebook.entries = Append(@, st.current_entry[1]),
                    !.entry_origin = Append(@, st.current_entry_line)]
    ELSE st

\* a Version: line
VersionLine(st, line) ==
    LET parts == Split1(line, ":")
    IN  IF Len(parts) >= 2 /\ IsIntLiteral(parts[2])
        THEN [st EXCEPT !.lorebook.lorebookVersion = IntValue(parts[2])]
        ELSE st

\* a line read in the categories section; lineno is its 1-based number
CategoriesLine(st, line, lineno) ==
    LET parts == Split1(line, ":")
    IN  IF StartsWith(line, "Category:")
        THEN IF Len(parts) < 2 THEN Raise(FlushCategory(st))
             ELSE [FlushCategory(st) EXCEPT
                      !.current_category =
                          <<NewCategory(Strip(parts[2]), Uuid(st.uuid_count + 1))>>,
                      !.uuid_count = @ + 1,
                      !.opened_categories = Append(@, lineno),
                      !.current_category_line = lineno]
        ELSE IF StartsWith(line, "ID:") /\ st.current_category # <<>>
        THEN IF Len(parts) < 2 THEN Raise(st)
             ELSE [st EXCEPT !.current_category[1].id = Strip(parts[2])]
        ELSE IF StartsWith(line, "Enabled:") /\ st.current_category # <<>>
        THEN IF Len(parts) < 2 THEN Raise(st)
             ELSE [st EXCEPT !.current_category[1].enabled =
                                 (Lower(Strip(parts[2])) = "true")]
        ELSE IF StartsWith(line, "Creates Subcontext:") /\ st.current_category # <<>>
        THEN IF Len(parts) < 2 THEN Raise(st)
             ELSE [st EXCEPT !.current_category[1].createSubcontext =
                                 (Lower(Strip(parts[2])) = "true")]
        ELSE st

\* a Category: line that ignores the parentheses and resolves the name
EntryCategoryLine_ResolvesByName(st, line) ==
    LET category_name == Strip(Split(Strip(Split1(line, ":")[2]), "(")[1])
        found == find_or_create_category_id(category_name, st.lorebook.categories,
                                            st.uuid_count)
    IN  [st EXCEPT !.current_entry[1].category = found.id,
                   !.lorebook.categories = found.categories,
                   !.uuid_count = found.uuid_count]

\* a Category: line that stores the name written before the parentheses
EntryCategoryLine_StoresName(st, line) ==
    LET category_line == Strip(Split1(line, ":")[2])
    IN  [st EXCEPT !.current_entry[1].category = Strip(Split(category_line, "(")[1])]

\* the Category: line of an entry
EntryCategoryLine(st, line) ==
    LET parts == Split1(line, ":")
        category_line == Strip(parts[2])
        by_paren == Split(category_line, "(")
        found == find_or_create_category_id(category_line, st.lorebook.categories,
                                            st.uuid_count)
    IN  IF Len(parts) < 2 THEN Raise(st)
        ELSE IF Contains(category_line, "(")
        THEN IF Len(by_paren) < 2 THEN Raise(st)
             ELSE [st EXCEPT !.current_entry[1].category =
                                 Strip(Split(by_paren[2], ")")[1])]
        ELSE [st EXCEPT !.current_entry[1].category = found.id,
                        !.lorebook.categories = found.categories,
                        !.uuid_count = found.uuid_count,
                        !.category_origin =
                            IF Len(found.categories) > Len(st.lorebook.categories)
                            THEN Append(@, 0) ELSE @]

\* the prefixes that end the lookahead of a Title: line
TitleStops == {"=", "-", "CONTEXT", "ADVANCED", "LORE"}

LookaheadStops(l) == \E p \in TitleStops : StartsWith(l, p)

\* the description found by the lookahead that starts at index j (0-based)
RECURSIVE LookaheadDescription(_, _)
LookaheadDescription(lines, j) ==
    IF j < Len(lines) /\ ~LookaheadStops(Strip(lines[j + 1]))
    THEN IF StartsWith(Strip(lines[j + 1]), "Description:")
         THEN LET description == Strip(Split1(Strip(lines[j + 1]), ":")[2])
              IN  IF StartsWith(description, "Type: ")
                  THEN IF Contains(description, "\n")
                       THEN Split1(description, "\n")[2]
                       ELSE ""
                  ELSE description
         ELSE LookaheadDescription(lines, j + 1)
    ELSE ""

\* the Title: line of an entry; i is the 0-based index of the line
TitleLine(st, line, lines, i) ==
    LET parts == Split1(line, ":")
        title == Strip(parts[2])
        description == LookaheadDescription(lines, i + 1)
    IN  IF Len(parts) < 2 THEN Raise(st)
        ELSE [st EXCEPT !.current_entry[1].text =
                 "----\n" \o title \o "\nType: "
                 \o get_category_name(st.current_entry[1].category, st.lorebook.categories)
                 \o "\n" \o description]

\* a numeric field that falls back to 0 instead of the prior value
IntField_ResetsOnFailure(line, prior) ==
    LET parts == Split1(line, ":")
    IN  IF Len(parts) >= 2 /\ IsIntLiteral(parts[2]) THEN IntValue(parts[2]) ELSE 0

\* Search Range:, Token Budget:, Budget Priority: the integer the line
\* carries, or the prior value when int() raises
IntField(line, prior) ==
    LET parts == Split1(line, ":")
    IN  IF Len(parts) >= 2 /\ IsIntLiteral(parts[2]) THEN IntValue(parts[2]) ELSE prior

\* a line read in the entries section
EntriesLine(st, line, lines, i, stamp) ==
    LET parts == Split1(line, ":")
    IN  IF StartsWith(line, "ENTRY #")
        THEN [FlushEntry(st) EXCEPT
                 !.current_entry = <<NewEntry(Uuid(st.uuid_count + 1), stamp)>>,
                 !.uuid_count = @ + 1,
                 !.opened_entries = Append(@, i + 1),
                 !.current_entry_line = i + 1]
        ELSE IF st.current_entry = <<>> THEN st
        ELSE IF StartsWith(line, "Display Name:")
        THEN IF Len(parts) < 2 THEN Raise(st)
             ELSE [st EXCEPT !.current_entry[1].displayName = Strip(parts[2])]
        ELSE IF StartsWith(line, "ID:")
        THEN IF Len(parts) < 2 THEN Raise(st)
             ELSE [st EXCEPT !.current_entry[1].id = Strip(parts[2])]
        ELSE IF StartsWith(line, "Category:") THEN EntryCategoryLine(st, line)
        ELSE IF StartsWith(line, "Activation Keys:")
        THEN IF Len(parts) < 2 THEN Raise(st)
             ELSE LET ks == Split(Strip(parts[2]), ",")
                  IN  [st EXCEPT !.current_entry[1].keys =
                                     [k \in 1..Len(ks) |-> Strip(ks[k])]]
        ELSE IF StartsWith(line, "Enabled:")
        THEN IF Len(parts) < 2 THEN Raise(st)
             ELSE [st EXCEPT !.current_entry[1].enabled =
                                 (Lower(Strip(parts[2])) = "true")]
        ELSE IF StartsWith(line, "Force Activation:")
        THEN IF Len(parts) < 2 THEN Raise(st)
             ELSE [st EXCEPT !.current_entry[1].forceActivation =
                                 (Lower(Strip(parts[2])) = "true")]
        ELSE IF StartsWith(line, "Search Range:")
        THEN [st EXCEPT !.current_entry[1].searchRange = IntField(line, @)]
        ELSE IF StartsWith(line, "Title:") THEN TitleLine(st, line, lines, i)
        ELSE IF StartsWith(line, "Token Budget:")
        THEN [st EXCEPT !.current_entry[1].contextConfig.tokenBudget = IntField(line, @)]
        ELSE IF StartsWith(line, "Budget Priority:")
        THEN [st EXCEPT !.current_entry[1].contextConfig.budgetPriority = IntField(line, @)]
        ELSE IF StartsWith(line, "Trim Direction:")
        THEN IF Len(parts) < 2 THEN Raise(st)
             ELSE [st EXCEPT !.current_entry[1].contextConfig.trimDirection = Strip(parts[2])]
        ELSE st

\* a line read in the settings section
SettingsLine(st, line) ==
    LET parts == Split1(line, ":")
        key == Strip(parts[1])
        value == Strip(parts[2])
    IN  IF ~Contains(line, ":") THEN st
        ELSE IF Len(parts) # 2 THEN Raise(st)
        ELSE IF Lower(value) = "true"
        THEN [st EXCEPT !.lorebook.settings = DictSet(@, key, SettingBool(TRUE))]
        ELSE IF Lower(value) = "false"
        THEN [st EXCEPT !.lorebook.settings = DictSet(@, key, SettingBool(FALSE))]
        ELSE IF IsDigit(value)
        THEN IF ~IsIntLiteral(value) THEN Raise(st)
             ELSE [st EXCEPT !.lorebook.settings = DictSet(@, key, SettingInt(IntValue(value)))]
        ELSE [st EXCEPT !.lorebook.settings = DictSet(@, key, SettingStr(value))]

\* structural noise: blank lines and separators
IsNoise(line) == line = "" \/ StartsWith(line, "=") \/ StartsWith(line, "-")

SectionOf(line) ==
    IF line = "CATEGORIES" THEN "categories"
    ELSE IF line = "LORE ENTRIES" THEN "entries"
    ELSE IF line = "SETTINGS" THEN "settings"
    ELSE "none"

\* the body of the while loop for the line at 0-based index i
ParseStep(st, lines, i, stamp) ==
    LET line == Strip(lines[i + 1])
    IN  IF IsNoise(line) THEN st
        ELSE IF StartsWith(line, "Version:") THEN VersionLine(st, line)
        ELSE IF SectionOf(line) # "none" THEN [st EXCEPT !.current_section = SectionOf(line)]
        ELSE IF st.current_section = "categories" THEN CategoriesLine(st, line, i + 1)
        ELSE IF st.current_section = "entries" THEN EntriesLine(st, line, lines, i, stamp)
        ELSE IF st.current_section = "settings" THEN SettingsLine(st, line)
        ELSE st

\* a return that forgets the category in progress
ParseFinish_ForgetsCategory(st) == FlushEntry(st)

\* the statements after the loop
ParseFinish(st) == FlushCategory(FlushEntry(st))

(***************************************************************************)
(* The key sanity checker (lorebook_key_sanity_checker.py): strings        *)
(***************************************************************************)

\* str.endswith(p)
EndsWith(s, p) == Len(s) >= Len(p) /\ SubSeq(s, Len(s) - Len(p) + 1, Len(s)) = p

\* s[:-n]
DropLast(s, n) == SubSeq(s, 1, Len(s) - n)

\* the first 1-based position from k on where sub stands in s, 0 when none
FindSubFrom(s, sub, k) ==
    LET hits == {j \in k..(Len(s) - Len(sub) + 1) : SubSeq(s, j, j + Len(sub) - 1) = sub}
    IN  IF hits = {} THEN 0 ELSE CHOOSE j \in hits : \A h \in hits : j <= h

\* sub in s
ContainsSub(s, sub) == FindSubFrom(s, sub, 1) # 0

\* s.replace(old, new), old not empty
RECURSIVE Replace(_, _, _)
Replace(s, old, new) ==
    LET k == FindSubFrom(s, old, 1)
    IN  IF k = 0 THEN s
        ELSE SubSeq(s, 1, k - 1) \o new \o Replace(DropFirst(s, k + Len(old) - 1), old, new)

\* the number of whitespace characters that stand in s from position k on
RECURSIVE WsRun(_, _)
WsRun(s, k) ==
    IF k <= Len(s) /\ CharAt(s, k) \in Whitespace THEN 1 + WsRun(s, k + 1) ELSE 0

\* \s+word, word compared in any case, stands in s right after position n:
\* the position of the first character after word, 0 when it does not
AfterKeyword(s, n, word) ==
    LET w == WsRun(s, n + 1)
        from == n + w + 1
    IN  IF /\ w >= 1
           /\ from + Len(word) - 1 <= Len(s)
           /\ Lower(SubSeq(s, from, from + Len(word) - 1)) = word
        THEN from + Len(word)
        ELSE 0

\* the tail (?:\s+.+)?$ of a pattern: nothing, or whitespace and more
OptionalTail(t) == Len(t) = 0 \/ (CharAt(t, 1) \in Whitespace /\ Len(t) >= 2)

\* \s+(group)(?:\s+.+)?$ on r, the group lazy: <<j, m>> where \s+ takes j
\* characters (as many as it can) and the group the next m (as few as it
\* can); <<>> when r does not match. no_comma: the group is [^,]+?, not .+?
SecondGroup(r, no_comma) ==
    LET w == WsRun(r, 1)
        fits(j, m) ==
            /\ j + m <= Len(r)
            /\ no_comma => ~Contains(SubSeq(r, j + 1, j + m), ",")
            /\ OptionalTail(DropFirst(r, j + m))
        js == {j \in 1..w : \E m \in 1..Len(r) : fits(j, m)}
    IN  IF js = {} THEN <<>>
        ELSE LET j == CHOOSE x \in js : \A y \in js : y <= x
                 ms == {m \in 1..Len(r) : fits(j, m)}
             IN  <<j, CHOOSE x \in ms : \A y \in ms : x <= y>>

\* ^(group1)\s+word\s+(group2)(?:\s+.+)?$ on s, both groups lazy, any case:
\* <<group1, group2>>, <<>> when s does not match
KeywordMatch(s, word, no_comma) ==
    LET ok(n) ==
            /\ no_comma => ~Contains(SubSeq(s, 1, n), ",")
            /\ AfterKeyword(s, n, word) # 0
            /\ SecondGroup(DropFirst(s, AfterKeyword(s, n, word) - 1), no_comma) # <<>>
        ns == {n \in 1..Len(s) : ok(n)}
    IN  IF ns = {} THEN <<>>
        ELSE LET n == CHOOSE x \in ns : \A y \in ns : x <= y
                 r == DropFirst(s, AfterKeyword(s, n, word) - 1)
                 g == SecondGroup(r, no_comma)
             IN  <<SubSeq(s, 1, n), SubSeq(r, g[1] + 1, g[1] + g[2])>>

\* ^([^,]+?)\s+the\s+.+$ on s, any case: <<group1>>, <<>> when no match
TheMatch(s) ==
    LET ok(n) ==
            /\ ~Contains(SubSeq(s, 1, n), ",")
            /\ AfterKeyword(s, n, "the") # 0
            /\ LET r == DropFirst(s, AfterKeyword(s, n, "the") - 1)
               IN  Len(r) >= 2 /\ CharAt(r, 1) \in Whitespace
        ns == {n \in 1..Len(s) : ok(n)}
    IN  IF ns = {} THEN <<>>
        ELSE <<SubSeq(s, 1, CHOOSE x \in ns : \A y \in ns : x <= y)>>

\* ^([^:]+): on s: <<group1>>, <<>> when no match
ColonMatch(s) == IF Find(s, ":") >= 2 THEN <<SubSeq(s, 1, Find(s, ":") - 1)>> ELSE <<>>

(***************************************************************************)
(* The key sanity checker: FinalSimpleKeySanityChecker                     *)
(***************************************************************************)

type_patterns ==
    <<[category |-> "character",
       synonyms |-> {"character", "characters", "person", "people", "individual", "npc",
                     "protagonist", "antagonist"}],
      [category |-> "organization",
       synonyms |-> {"organization", "organisation", "group", "faction", "guild", "cult",
                     "company", "order", "society", "clan", "organizations"}],
      [category |-> "location",
       synonyms |-> {"location", "locations", "place", "area", "region", "site", "spot",
                     "venue", "destination"}],
      [category |-> "item",
       synonyms |-> {"item", "items", "object", "objects", "artifact", "artifacts",
                     "equipment", "gear", "tool", "weapon", "weaponry"}],
      [category |-> "race",
       synonyms |-> {"race", "races", "species", "subrace", "subspecies"}]>>

name_prefixes ==
    <<"the ", "a ", "an ", "lord ", "lady ", "king ", "queen ", "prince ", "princess ",
      "duke ", "duchess ", "sir ", "master ", "mistress ", "captain ", "general ",
      "elder ", "high ", "grand ", "arch-", "chief ", "head ">>

name_suffixes ==
    <<" the great", " the wise", " the bold", " the strong", " the brave", " the mighty",
      " the old", " the young", " the elder", " the younger", " i", " ii", " iii", " iv",
      " v", " vi", " vii", " viii", " ix", " x", " jr", " sr", " senior", " junior">>

\* the types for which extract_names_from_title prefers the name after "of"
location_types ==
    {"location", "locations", "place", "area", "region", "site", "spot", "venue",
     "destination"}

common_words ==
    {"the", "a", "an", "and", "or", "but", "in", "on", "at", "to", "for",
     "of", "with", "by", "from", "up", "about", "into", "through", "during",
     "before", "after", "above", "below", "between", "among", "is", "are",
     "was", "were", "be", "been", "being", "have", "has", "had", "do",
     "does", "did", "will", "would", "could", "should", "may", "might",
     "must", "can", "this", "that", "these", "those", "i", "you", "he",
     "she", "it", "we", "they", "what", "which", "who", "when", "where",
     "why", "how", "all", "each", "every", "both", "few", "more", "most",
     "other", "some", "such", "only", "own", "same", "so", "than", "too",
     "very", "just", "now", "then", "here", "there", "again", "further", "once",
     "their", "your", "our", "its", "his", "her", "my", "yourself", "himself",
     "herself", "itself", "ourselves", "themselves", "myself", "oneself"}

\* the loop of extract_entry_info over the lines of the text from line k on;
\* info holds title, entry_type and description so far. lower_type: the
\* checker lowers the type, the key generator does not
RECURSIVE ScanTextLines(_, _, _, _)
ScanTextLines(text_lines, k, info, lower_type) ==
    IF k > Len(text_lines) THEN info
    ELSE LET line == text_lines[k]
             typed == Strip(Replace(line, "Type:", ""))
         IN  ScanTextLines(text_lines, k + 1,
                 IF StartsWith(line, "----") THEN info
                 ELSE IF StartsWith(line, "Type:")
                 THEN [info EXCEPT !.entry_type = IF lower_type THEN Lower(typed) ELSE typed]
                 ELSE IF Strip(line) # ""
                 THEN IF info.title = ""
                      THEN [info EXCEPT !.title = Strip(line)]
                      ELSE [info EXCEPT !.description = @ \o Strip(line) \o " "]
                 ELSE info,
                 lower_type)

\* FinalSimpleKeySanityChecker.extract_entry_info: title, type, description
extract_entry_info(entry) ==
    LET info == ScanTextLines(Split(entry.text, "\n"), 1,
                              [title |-> "", entry_type |-> "", description |-> ""], TRUE)
    IN  [title |-> IF info.title = "" /\ entry.displayName # ""
                   THEN entry.displayName ELSE info.title,
         entry_type |-> info.entry_type,
         description |-> Strip(info.description)]

\* get_entry_type_category: the first category whose synonyms hold the type
get_entry_type_category(entry_type) ==
    LET hits == {k \in 1..Len(type_patterns) : Lower(entry_type) \in type_patterns[k].synonyms}
    IN  IF hits = {} THEN "other"
        ELSE type_patterns[CHOOSE k \in hits : \A h \in hits : k <= h].category

should_check_entry(entry_type) ==
    get_entry_type_category(entry_type) \in
        {"character", "organization", "location", "item", "race"}

\* the first prefix of the list that s starts with removed
StripPrefix(s) ==
    LET hits == {k \in 1..Len(name_prefixes) : StartsWith(s, name_prefixes[k])}
    IN  IF hits = {} THEN s
        ELSE DropFirst(s, Len(name_prefixes[CHOOSE k \in hits : \A h \in hits : k <= h]))

\* the first suffix of the list that s ends with removed, then strip()
StripSuffix(s) ==
    LET hits == {k \in 1..Len(name_suffixes) : EndsWith(s, name_suffixes[k])}
    IN  IF hits = {} THEN s
        ELSE Strip(DropLast(s, Len(name_suffixes[CHOOSE k \in hits : \A h \in hits : k <= h])))

\* the plural rules of normalize_name
Singular(s) ==
    IF EndsWith(s, "ies") THEN DropLast(s, 3) \o "y"
    ELSE IF EndsWith(s, "es") /\ Len(s) > 3 THEN DropLast(s, 2)
    ELSE IF EndsWith(s, "s") /\ ~EndsWith(s, "ss") THEN DropLast(s, 1)
    ELSE s

normalize_name(name) ==
    IF name = "" THEN ""
    ELSE LET singular == Singular(StripSuffix(StripPrefix(Strip(Lower(name)))))
         IN  Strip(IF EndsWith(singular, "cav") THEN DropLast(singular, 3) \o "cave"
                   ELSE singular)

extract_core_name(name) ==
    IF name = "" THEN ""
    ELSE LET stripped == Strip(name)
             before_the == IF TheMatch(stripped) # <<>>
                           THEN Strip(TheMatch(stripped)[1]) ELSE stripped
             before_comma == IF Contains(before_the, ",")
                             THEN Strip(Split(before_the, ",")[1]) ELSE before_the
         IN  normalize_name(before_comma)

is_common_word(word) == Lower(word) \in common_words

\* the sequence holding the name when it is not empty
NamesOf(core_name) == IF core_name # "" THEN <<core_name>> ELSE <<>>

\* the branches of extract_names_from_title: the parts of the title handed to
\* extract_core_name, in the order of the calls; first_only when a name found
\* for one part returns before the next part is tried
TitleParts(title, entry_type) ==
    LET of_match == KeywordMatch(title, "of", TRUE)
        and_match == KeywordMatch(title, "and", FALSE)
    IN  IF title = "" THEN [parts |-> <<>>, first_only |-> FALSE]
        ELSE IF Contains(title, ",")
        THEN [parts |-> <<Strip(Split(title, ",")[1])>>, first_only |-> FALSE]
        ELSE IF ColonMatch(title) # <<>>
        THEN [parts |-> <<Strip(ColonMatch(title)[1])>>, first_only |-> FALSE]
        ELSE IF of_match # <<>>
        THEN IF entry_type \in location_types /\ ~is_common_word(Strip(of_match[2]))
             THEN [parts |-> <<Strip(of_match[2]), Strip(of_match[1])>>,
                   first_only |-> TRUE]
             ELSE [parts |-> <<Strip(of_match[1])>>, first_only |-> FALSE]
        ELSE IF and_match # <<>>
        THEN [parts |-> <<Strip(and_match[1]), Strip(and_match[2])>>,
              first_only |-> FALSE]
        ELSE [parts |-> <<title>>, first_only |-> FALSE]

\* the names extract_names_from_title appends for the parts from the k-th on
RECURSIVE CoreNames(_, _, _)
CoreNames(parts, first_only, k) ==
    IF k > Len(parts) THEN <<>>
    ELSE LET found == NamesOf(extract_core_name(parts[k]))
         IN  IF first_only /\ found # <<>> THEN found
             ELSE found \o CoreNames(parts, first_only, k + 1)

\* the names of CoreNames for a record of TitleParts
NamesOfParts(title_parts) == CoreNames(title_parts.parts, title_parts.first_only, 1)

extract_names_from_title(title, entry_type) ==
    NamesOfParts(TitleParts(title, entry_type))

\* the redundancy test that finds no key redundant
is_redundant_key_Never(new_key, existing_keys) == FALSE

\* is_redundant_key: one key holds the other, compared in lower case
is_redundant_key(new_key, existing_keys) ==
    \E k \in 1..Len(existing_keys) :
        \/ ContainsSub(Lower(existing_keys[k]), Lower(new_key))
        \/ ContainsSub(Lower(new_key), Lower(existing_keys[k]))

\* some key equals the name, compared in lower case
InKeys(name, keys) == \E k \in 1..Len(keys) : Lower(name) = Lower(keys[k])

\* the loop of check_and_fix_entry over the names from the k-th on; acc holds
\* updated_keys, changes_made and was_modified
RECURSIVE CheckNames(_, _, _)
CheckNames(names, k, acc) ==
    IF k > Len(names) THEN acc
    ELSE LET name == names[k]
         IN  CheckNames(names, k + 1,
                 IF name = "" THEN acc
                 ELSE IF is_common_word(name)
                 THEN [acc EXCEPT !.changes_made =
                                      Append(@, "Skipped common word: '" \o name \o "'")]
                 ELSE IF InKeys(name, acc.updated_keys) THEN acc
                 ELSE IF ~is_redundant_key(name, acc.updated_keys)
                 THEN [acc EXCEPT !.updated_keys = Append(@, name),
                                  !.changes_made =
                                      Append(@, "Added missing name key: '" \o name \o "'"),
                                  !.was_modified = TRUE]
                 ELSE [acc EXCEPT !.changes_made =
                                      Append(@, "Skipped redundant key: '" \o name \o "'")])

\* the special case of check_and_fix_entry for titles ending in ves
SingularF(title, acc) ==
    LET singular_f_form == DropLast(Lower(title), 3) \o "f"
    IN  IF /\ EndsWith(Lower(title), "ves")
           /\ ~InKeys(singular_f_form, acc.updated_keys)
           /\ ~is_redundant_key(singular_f_form, acc.updated_keys)
        THEN [acc EXCEPT !.updated_keys = Append(@, singular_f_form),
                         !.changes_made =
                             Append(@, "Added missing name key: '" \o singular_f_form \o "'")]
        ELSE acc

\* check_and_fix_entry from the loop over the names on: the loop, the ves
\* case and the return
FixKeys(entry, stamp, title, names) ==
    LET acc == SingularF(title,
                   CheckNames(names, 1, [updated_keys |-> entry.keys,
                                         changes_made |-> <<>>,
                                         was_modified |-> FALSE]))
    IN  IF names = <<>>
        THEN [entry |-> entry, was_modified |-> FALSE, changes |-> <<>>]
        ELSE IF acc.was_modified \/ Len(acc.changes_made) > 0
        THEN [entry |-> [entry EXCEPT !.keys = acc.updated_keys,
                                      !.lastUpdatedAt = stamp],
              was_modified |-> TRUE,
              changes |-> acc.changes_made]
        ELSE [entry |-> entry, was_modified |-> FALSE, changes |-> <<>>]

\* check_and_fix_entry: the entry returned, was it modified, the changes
check_and_fix_entry(entry, stamp) ==
    LET info == extract_entry_info(entry)
    IN  IF ~should_check_entry(info.entry_type)
        THEN [entry |-> entry, was_modified |-> FALSE, changes |-> <<>>]
        ELSE FixKeys(entry, stamp, info.title,
                     extract_names_from_title(info.title, info.entry_type))

(***************************************************************************)
(* The key generator (generate_lorebook_keys.py): LorebookKeyGenerator     *)
(***************************************************************************)

min_keys == 4

max_keys == 10

\* LorebookKeyGenerator.extract_entry_info
generator_extract_entry_info(entry) ==
    LET info == ScanTextLines(Split(entry.text, "\n"), 1,
                              [title |-> "", entry_type |-> "", description |-> ""], FALSE)
    IN  [title |-> info.title,
         type |-> info.entry_type,
         description |-> Strip(info.description),
         display_name |-> entry.displayName,
         current_keys |-> entry.keys]

\* the number of decimal digits s starts with
RECURSIVE DigitRun(_, _)
DigitRun(s, k) ==
    IF k <= Len(s) /\ IsDigitChar(CharAt(s, k)) THEN 1 + DigitRun(s, k + 1) ELSE 0

\* re.sub(r'^\d+[\.\)]\s*', '', key)
RemoveNumbering(key) ==
    LET d == DigitRun(key, 1)
    IN  IF d >= 1 /\ d < Len(key) /\ CharAt(key, d + 1) \in {".", ")"}
        THEN DropFirst(key, d + 1 + WsRun(key, d + 2))
        ELSE key

\* re.sub(r'^[-*]\s*', '', key)
RemoveBullet(key) ==
    IF Len(key) >= 1 /\ CharAt(key, 1) \in {"-", "*"}
    THEN DropFirst(key, 1 + WsRun(key, 2))
    ELSE key

QuoteChars == {"\"", "'"}

\* re.sub(r'^["\']|["\']$', '', key)
RemoveQuotes(key) ==
    LET opened == IF Len(key) >= 1 /\ CharAt(key, 1) \in QuoteChars
                  THEN DropFirst(key, 1) ELSE key
    IN  IF Len(opened) >= 1 /\ CharAt(opened, Len(opened)) \in QuoteChars
        THEN DropLast(opened, 1)
        ELSE opened

\* the cleaned keys of the parts of keys_text from the k-th on
RECURSIVE CleanParts(_, _)
CleanParts(parts, k) ==
    IF k > Len(parts) THEN <<>>
    ELSE LET key == Strip(RemoveQuotes(RemoveBullet(RemoveNumbering(Strip(parts[k])))))
         IN  (IF key # "" /\ Len(key) <= 50 THEN <<key>> ELSE <<>>) \o CleanParts(parts, k + 1)

\* clean_generated_keys: the keys, or raised when the pattern of line 126 is
\* compiled (it has an unclosed group, and re.search raises re.error), which
\* is when the first line holds no comma
clean_generated_keys(raw_text) ==
    LET stripped == Strip(raw_text)
        text == IF ContainsSub(stripped, "----")
                THEN Strip(SubSeq(stripped, 1, FindSubFrom(stripped, "----", 1) - 1))
                ELSE stripped
        first_line == Strip(Split(text, "\n")[1])
        valid_keys == CleanParts(Split(first_line, ","), 1)
    IN  IF ~Contains(first_line, ",")
        THEN [raised |-> TRUE, keys |-> <<>>]
        ELSE [raised |-> FALSE,
              keys |-> SubSeq(valid_keys, 1, IF Len(valid_keys) < max_keys
                                             THEN Len(valid_keys) ELSE max_keys)]

\* generate_keys_for_entry answering a failure with no keys
generate_keys_for_entry_DropsKeys(entry_info, result, choice_few, choice_final) ==
    LET cleaned_keys == clean_generated_keys(result.text)
    IN  IF ~result.ok THEN <<>>
        ELSE IF cleaned_keys.raised THEN <<>>
        ELSE IF Len(cleaned_keys.keys) < min_keys /\ choice_few = "3"
        THEN entry_info.current_keys
        ELSE IF choice_final = "3" THEN entry_info.current_keys
        ELSE cleaned_keys.keys

\* generate_keys_for_entry, for the attempt that returns: result is what the
\* API call gave (ok FALSE: it raised), choice_few the answer to the prompt
\* shown when fewer than min_keys keys came, choice_final the answer to the
\* prompt always shown. The answers 2 and 4 start the function again.
generate_keys_for_entry(entry_info, result, choice_few, choice_final) ==
    LET cleaned_keys == clean_generated_keys(result.text)
    IN  IF ~result.ok THEN entry_info.current_keys
        ELSE IF cleaned_keys.raised THEN entry_info.current_keys
        ELSE IF Len(cleaned_keys.keys) < min_keys /\ choice_few = "3"
        THEN entry_info.current_keys
        ELSE IF choice_final = "3" THEN entry_info.current_keys
        ELSE cleaned_keys.keys

\* the answers the user gave to the prompts that generate_keys_for_entry
\* showed in the attempt that returned: none when the call or the cleaning
\* raised, the final prompt only when min_keys keys or more came, and the
\* first prompt only when its answer was to skip
answers_given(result, choice_few, choice_final) ==
    IF ~result.ok THEN <<>>
    ELSE IF clean_generated_keys(result.text).raised THEN <<>>
    ELSE IF Len(clean_generated_keys(result.text).keys) >= min_keys THEN <<choice_final>>
    ELSE IF choice_few = "3" THEN <<choice_few>>
    ELSE <<choice_few, choice_final>>

(***************************************************************************)
(* The key reducer (reduce_lorebook_keys.py): LorebookKeyReducer           *)
(***************************************************************************)

\* the common_words of prioritize_keys
reducer_common_words ==
    {"the", "a", "an", "and", "or", "but", "in", "on", "at", "to", "for",
     "of", "with", "by", "from", "up", "about", "into", "through", "during",
     "before", "after", "above", "below", "between", "among", "is", "are",
     "was", "were", "be", "been", "being", "have", "has", "had", "do",
     "does", "did", "will", "would", "could", "should", "may", "might",
     "must", "can", "this", "that", "these", "those", "i", "you", "he",
     "she", "it", "we", "they", "what", "which", "who", "when", "where",
     "why", "how", "all", "each", "every", "both", "few", "more", "most",
     "other", "some", "such", "only", "own", "same", "so", "than", "too",
     "very", "just", "now", "then", "here", "there", "again", "further", "once"}

\* any(c.isdigit() for c in key)
HasDigit(key) == \E n \in 1..Len(key) : IsDigitChar(CharAt(key, n))

\* the score prioritize_keys gives a key, doubled: the code adds half a
\* point per character, and twice the score is a whole number
score(key, entry_text) ==
    (IF ContainsSub(Lower(entry_text), Lower(key)) THEN 20 ELSE 0)
    + Len(key)
    - (IF Lower(key) \in reducer_common_words THEN 10 ELSE 0)
    + (IF HasDigit(key) THEN 4 ELSE 0)
    + (IF Contains(key, " ") \/ Contains(key, "-") THEN 2 ELSE 0)
    + (IF key # "" /\ (\E n \in 1..Len(UpperCase) : CharAt(key, 1) = UpperCase[n])
       THEN 2 ELSE 0)

\* the sort with the ties broken the other way: by falling index
SortedIndices_LaterFirst(scores) ==
    [p \in 1..Len(scores) |->
        CHOOSE n \in 1..Len(scores) :
            Cardinality({m \in 1..Len(scores) :
                            \/ scores[m] > scores[n]
                            \/ scores[m] = scores[n] /\ m > n}) = p - 1]

\* key_scores.sort(key=lambda x: (-x[0], x[2])): the indices of scores by
\* falling score, and by rising index where the scores are equal
SortedIndices(scores) ==
    [p \in 1..Len(scores) |->
        CHOOSE n \in 1..Len(scores) :
            Cardinality({m \in 1..Len(scores) :
                            \/ scores[m] > scores[n]
                            \/ scores[m] = scores[n] /\ m < n}) = p - 1]

\* the cut that takes one key more than the limit
TopKeys_OneMore(keys, sorted, limit) ==
    [p \in 1..(IF limit + 1 < Len(keys) THEN limit + 1 ELSE Len(keys)) |-> keys[sorted[p]]]

\* key_scores[:self.max_keys] read off the sorted indices, limit not negative
TopKeys(keys, sorted, limit) ==
    [p \in 1..(IF limit < Len(keys) THEN limit ELSE Len(keys)) |-> keys[sorted[p]]]

\* prioritize_keys, with limit the reducer's max_keys
prioritize_keys(keys, entry_text, limit) ==
    IF Len(keys) <= limit THEN keys
    ELSE TopKeys(keys,
                 SortedIndices([n \in 1..Len(keys) |-> score(keys[n], entry_text)]),
                 limit)

\* reduce_entry_keys without the new timestamp
reduce_entry_keys_KeepsStamp(entry, stamp, limit) ==
    IF Len(entry.keys) <= limit THEN entry
    ELSE [entry EXCEPT !.keys = prioritize_keys(entry.keys, entry.text, limit)]

\* reduce_entry_keys, with limit the reducer's max_keys
reduce_entry_keys(entry, stamp, limit) ==
    IF Len(entry.keys) <= limit THEN entry
    ELSE [entry EXCEPT !.keys = prioritize_keys(entry.keys, entry.text, limit),
                       !.lastUpdatedAt = stamp]

\* the loop body of the reducer's process_lorebook after reduce_entry_keys
\* returned updated_entry for entry
Reduced(t, entry, updated_entry) ==
    [t EXCEPT !.processed_entries = Append(@, updated_entry),
              !.total_keys_removed = @ + Len(entry.keys) - Len(updated_entry.keys),
              !.entries_modified =
                  @ + (IF Len(entry.keys) - Len(updated_entry.keys) > 0 THEN 1 ELSE 0),
              !.outcome = Append(@, IF Len(entry.keys) - Len(updated_entry.keys) > 0
                                    THEN "reduced" ELSE "kept"),
              !.attempts = Append(@, <<>>)]

\* the written lorebook without the input's categories
new_lorebook_SkipsCategories(lorebook, processed_entries) ==
    [lorebookVersion |-> lorebook.lorebookVersion,
     entries |-> processed_entries,
     categories |-> <<>>,
     settings |-> lorebook.settings]

\* the lorebook the tools write: the processed entries in the input's frame
new_lorebook(lorebook, processed_entries) ==
    [lorebookVersion |-> lorebook.lorebookVersion,
     entries |-> processed_entries,
     categories |-> lorebook.categories,
     settings |-> lorebook.settings]

\* the number of changes that do not start with Skipped
RECURSIVE IssuesIn(_)
IssuesIn(changes) ==
    IF changes = <<>> THEN 0
    ELSE (IF StartsWith(changes[1], "Skipped") THEN 0 ELSE 1) + IssuesIn(Tail(changes))

\* the loop body of check_lorebook after the call of check_and_fix_entry
\* returned checked: the counters and the list of processed entries
Processed(t, checked) ==
    [t EXCEPT !.processed_entries = Append(@, checked.entry),
              !.total_issues_found = @ + IssuesIn(checked.changes),
              !.entries_fixed = @ + (IF checked.changes # <<>> THEN 1 ELSE 0),
              !.outcome = Append(@, IF checked.changes # <<>> THEN "issues" ELSE "ok"),
              !.attempts = Append(@, <<>>)]

\* the locals of check_lorebook and of the two process_lorebook before their
\* loops, with what the tools were started on and what came in from outside:
\* max_keys is the reducer's limit, outcome the branch the loop body took for
\* each entry, attempts for each entry the API result and the user's answers
\* of the generation that returned (<<>> where none ran), raw_text and
\* cleaned the argument and the result of a call of clean_generated_keys
ToolStart ==
    [lorebook |-> <<>>,
     check_only |-> FALSE,
     max_keys |-> 5,
     processed_entries |-> <<>>,
     total_issues_found |-> 0,
     entries_fixed |-> 0,
     entries_updated |-> 0,
     total_keys_removed |-> 0,
     entries_modified |-> 0,
     output |-> <<>>,
     outcome |-> <<>>,
     attempts |-> <<>>,
     raw_text |-> "",
     cleaned |-> <<>>]

(***************************************************************************)
(* State                                                                   *)
(***************************************************************************)

VARIABLES
    pc,                   \* where the program is: "serialize", "read", "parse",
                          \* "done", "error", "resolve", "check", "generate",
                          \* "reduce", "clean"
    doc,                  \* the record json_to_txt loaded, <<>> when none
    reverse_category_map, \* the converter's map of category id to name
    txt_content,          \* the text form
    lines,                \* txt_content.split('\n')
    i,                    \* the cursor of the parser's main loop (0-based)
    parser,               \* the locals of _parse_txt_content
    now,                  \* the clock: datetime.now()
    calls,                \* the resolver calls made so far: name, id returned,
                          \* categories before and after
    tool                  \* the locals of check_lorebook and of process_lorebook

vars == <<pc, doc, reverse_category_map, txt_content, lines, i, parser, now, calls, tool>>

(***************************************************************************)
(* Actions of the parser                                                   *)
(***************************************************************************)

\* one iteration of the while loop of _parse_txt_content
ParseLine ==
    /\ pc = "parse"
    /\ i < Len(lines)
    /\ parser' = ParseStep(parser, lines, i, now)
    /\ i' = i + 1
    /\ pc' = IF parser'.raised THEN "error" ELSE "parse"
    /\ UNCHANGED <<doc, reverse_category_map, txt_content, lines, now, calls, tool>>

\* the loop is left: final flush and return
ParseEnd ==
    /\ pc = "parse"
    /\ i >= Len(lines)
    /\ parser' = ParseFinish(parser)
    /\ pc' = "done"
    /\ UNCHANGED <<doc, reverse_category_map, txt_content, lines, i, now, calls, tool>>

(***************************************************************************)
(* Actions of the converter                                                *)
(***************************************************************************)

\* json_to_txt: enter the document's categories into the converter's map,
\* then generate the text
json_to_txt ==
    /\ pc = "serialize"
    /\ reverse_category_map' = BuildCategoryMap(reverse_category_map, doc.categories)
    /\ txt_content' = generate_txt_content(doc, reverse_category_map', now)
    /\ pc' = "read"
    /\ UNCHANGED <<doc, lines, i, parser, now, calls, tool>>

\* txt_to_json up to the start of the parser's loop: the text is split into
\* lines and the locals are initialised
txt_to_json ==
    /\ pc = "read"
    /\ lines' = Split(txt_content, "\n")
    /\ i' = 0
    /\ parser' = ParserStart
    /\ pc' = "parse"
    /\ UNCHANGED <<doc, reverse_category_map, txt_content, now, calls, tool>>

\* a call of _find_or_create_category_id(category_name, lorebook)
Resolve(category_name) ==
    /\ pc = "resolve"
    /\ LET found == find_or_create_category_id(category_name, parser.lorebook.categories,
                                               parser.uuid_count)
       IN  /\ parser' = [parser EXCEPT !.lorebook.categories = found.categories,
                                       !.uuid_count = found.uuid_count]
           /\ calls' = Append(calls, [name |-> category_name,
                                      id |-> found.id,
                                      before |-> parser.lorebook.categories,
                                      after |-> found.categories])
    /\ UNCHANGED <<pc, doc, reverse_category_map, txt_content, lines, i, now, tool>>

(***************************************************************************)
(* Actions of the key sanity checker and of the key generator              *)
(***************************************************************************)

\* one iteration of the loop of check_lorebook
CheckEntry ==
    /\ pc = "check"
    /\ Len(tool.processed_entries) < Len(tool.lorebook.entries)
    /\ LET entry == tool.lorebook.entries[Len(tool.processed_entries) + 1]
       IN  tool' = IF ~should_check_entry(extract_entry_info(entry).entry_type)
                   THEN [tool EXCEPT !.processed_entries = Append(@, entry),
                                     !.outcome = Append(@, "skipped"),
                                     !.attempts = Append(@, <<>>)]
                   ELSE Processed(tool, check_and_fix_entry(entry, now))
    /\ UNCHANGED <<pc, doc, reverse_category_map, txt_content, lines, i, parser, now, calls>>

\* check_lorebook after its loop: the report, and the file when there is
\* something to fix and the run is not check-only
CheckReport ==
    /\ pc = "check"
    /\ Len(tool.processed_entries) = Len(tool.lorebook.entries)
    /\ tool' = IF ~tool.check_only /\ tool.total_issues_found > 0
               THEN [tool EXCEPT !.output =
                         <<new_lorebook(tool.lorebook, tool.processed_entries)>>]
               ELSE tool
    /\ pc' = "done"
    /\ UNCHANGED <<doc, reverse_category_map, txt_content, lines, i, parser, now, calls>>

\* what the API call of generate_keys_for_entry can give
ApiResults ==
    {[ok |-> FALSE, text |-> ""],
     [ok |-> TRUE, text |-> " mill, ruin, old mill, river, wheel\n----\nNext"],
     [ok |-> TRUE, text |-> "1. mill, - ruin, 'wheel'"],
     [ok |-> TRUE, text |-> "mill"]}

\* the answers to a prompt that end the attempt: accept, skip, anything else
Choices == {"1", "3", ""}

\* one iteration of the loop of process_lorebook
GenerateEntry ==
    /\ pc = "generate"
    /\ Len(tool.processed_entries) < Len(tool.lorebook.entries)
    /\ LET entry == tool.lorebook.entries[Len(tool.processed_entries) + 1]
           entry_info == generator_extract_entry_info(entry)
       IN  IF Len(entry_info.current_keys) >= min_keys
           THEN tool' = [tool EXCEPT !.processed_entries = Append(@, entry),
                                     !.outcome = Append(@, "enough"),
                                     !.attempts = Append(@, <<>>)]
           ELSE \E result \in ApiResults, choice_few \in Choices, choice_final \in Choices :
                    LET new_keys == generate_keys_for_entry(entry_info, result,
                                                            choice_few, choice_final)
                    IN  tool' = [tool EXCEPT !.processed_entries =
                                                 Append(@, [entry EXCEPT !.keys = new_keys,
                                                                         !.lastUpdatedAt = now]),
                                             !.entries_updated = @ + 1,
                                             !.outcome = Append(@, "generated"),
                                             !.attempts =
                                                 Append(@, <<[result |-> result,
                                                              answers |-> answers_given(
                                                                  result, choice_few,
                                                                  choice_final)]>>)]
    /\ UNCHANGED <<pc, doc, reverse_category_map, txt_content, lines, i, parser, now, calls>>

\* process_lorebook after its loop: the new lorebook is written
GenerateSave ==
    /\ pc = "generate"
    /\ Len(tool.processed_entries) = Len(tool.lorebook.entries)
    /\ tool' = [tool EXCEPT !.output =
                   <<new_lorebook(tool.lorebook, tool.processed_entries)>>]
    /\ pc' = "done"
    /\ UNCHANGED <<doc, reverse_category_map, txt_content, lines, i, parser, now, calls>>

\* one iteration of the loop of the reducer's process_lorebook
ReduceEntry ==
    /\ pc = "reduce"
    /\ Len(tool.processed_entries) < Len(tool.lorebook.entries)
    /\ LET entry == tool.lorebook.entries[Len(tool.processed_entries) + 1]
       IN  tool' = Reduced(tool, entry, reduce_entry_keys(entry, now, tool.max_keys))
    /\ UNCHANGED <<pc, doc, reverse_category_map, txt_content, lines, i, parser, now, calls>>

\* the reducer's process_lorebook after its loop: the new lorebook is
\* written; a lorebook without entries made it return before the loop
ReduceSave ==
    /\ pc = "reduce"
    /\ Len(tool.processed_entries) = Len(tool.lorebook.entries)
    /\ tool' = IF Len(tool.lorebook.entries) = 0 THEN tool
               ELSE [tool EXCEPT !.output =
                        <<new_lorebook(tool.lorebook, tool.processed_entries)>>]
    /\ pc' = "done"
    /\ UNCHANGED <<doc, reverse_category_map, txt_content, lines, i, parser, now, calls>>

\* a call of clean_generated_keys(raw_text)
Clean ==
    /\ pc = "clean"
    /\ tool' = [tool EXCEPT !.cleaned = <<clean_generated_keys(tool.raw_text)>>]
    /\ pc' = "done"
    /\ UNCHANGED <<doc, reverse_category_map, txt_content, lines, i, parser, now, calls>>

(***************************************************************************)
(* Bounds and input sets                                                   *)
(***************************************************************************)

\* the timestamps the clock may show (datetime.now(), counted in seconds)
Clock == {1700000000}

RECURSIVE SeqsUpTo(_, _)
SeqsUpTo(S, n) ==
    IF n = 0 THEN {<<>>}
    ELSE LET shorter == SeqsUpTo(S, n - 1)
         IN  shorter \cup {Append(q, x) : q \in shorter, x \in S}

\* longest text of SpecLines, in lines
MaxLines == 4

\* most category blocks and entry blocks of a text of SpecText
MaxCategoryBlocks == 2
MaxEntryBlocks == 2

\* most categories and entries of a document of Spec
MaxCategories == 2
MaxEntries == 2

\* most categories of a document of SpecResolver, most resolver calls
MaxResolverCategories == 2
MaxCalls == 3

(***************************************************************************)
(* SpecLines: the parser on every text of at most MaxLines lines of        *)
(* LinePool, the lines that shape a text                                   *)
(***************************************************************************)

LinePool ==
    {"Version: x", "CATEGORIES", "LORE ENTRIES", "SETTINGS",
     "Category: A", "ENTRY #1", "level: " \o SuperscriptTwo}

FreeTexts == {Join(q, "\n") : q \in SeqsUpTo(LinePool, MaxLines)}

\* the state at the start of the parser's loop, for the text t
ParserInit(t) ==
    /\ pc = "parse"
    /\ doc = <<>>
    /\ reverse_category_map = <<>>
    /\ txt_content = t
    /\ lines = Split(t, "\n")
    /\ i = 0
    /\ parser = ParserStart
    /\ now \in Clock
    /\ calls = <<>>
    /\ tool = ToolStart

InitLines == \E t \in FreeTexts : ParserInit(t)

NextParse == ParseLine \/ ParseEnd

SpecLines == InitLines /\ [][NextParse]_vars

(***************************************************************************)
(* SpecNumeric: the parser on every text of at most MaxLines lines of      *)
(* NumericPool, the lines that carry numbers                               *)
(***************************************************************************)

NumericPool ==
    {"Version: x", "LORE ENTRIES", "SETTINGS", "ENTRY #1",
     "Search Range: 5", "Search Range: 1.5", "Token Budget: abc", "Budget Priority: "}

NumericTexts == {Join(q, "\n") : q \in SeqsUpTo(NumericPool, MaxLines)}

InitNumeric == \E t \in NumericTexts : ParserInit(t)

SpecNumeric == InitNumeric /\ [][NextParse]_vars

(***************************************************************************)
(* SpecText: the parser on texts shaped like a document: a CATEGORIES      *)
(* section of category blocks, then a LORE ENTRIES section of entry blocks *)
(***************************************************************************)

CategoryBlocks ==
    {<<"Category: " \o n>> \o f :
        n \in {"A", "B"},
        f \in {<<"ID: c1">>, <<"ID: c2", "Enabled: False", "Creates Subcontext: true">>}}

EntryBlocks ==
    {<<"ENTRY #1">> \o c \o t :
        c \in {<<"Category: A">>, <<"Category: A (c1)">>, <<"Category: B (c9)">>},
        t \in {<<>>, <<"Title: T", "Description: d">>}}

CategorySections ==
    {<<>>} \cup {<<"CATEGORIES">> \o Flatten(q) :
                    q \in SeqsUpTo(CategoryBlocks, MaxCategoryBlocks) \ {<<>>}}

EntrySections ==
    {<<>>} \cup {<<"LORE ENTRIES">> \o Flatten(q) :
                    q \in SeqsUpTo(EntryBlocks, MaxEntryBlocks) \ {<<>>}}

ShapedTexts == {Join(c \o e, "\n") : c \in CategorySections, e \in EntrySections}

InitText == \E t \in ShapedTexts : ParserInit(t)

SpecText == InitText /\ [][NextParse]_vars

(***************************************************************************)
(* SpecResolver: calls of the resolver on a document                       *)
(***************************************************************************)

ResolverNames == {"A", "B", "C"}

ResolverCategories == {NewCategory(n, c) : n \in {"A", "B"}, c \in {"c1", "c2"}}

InitResolver ==
    /\ pc = "resolve"
    /\ doc = <<>>
    /\ reverse_category_map = <<>>
    /\ txt_content = ""
    /\ lines = <<>>
    /\ i = 0
    /\ \E cats \in SeqsUpTo(ResolverCategories, MaxResolverCategories) :
          parser = [ParserStart EXCEPT !.lorebook.categories = cats]
    /\ now \in Clock
    /\ calls = <<>>
    /\ tool = ToolStart

NextResolver == \E category_name \in ResolverNames :
                    Len(calls) < MaxCalls /\ Resolve(category_name)

SpecResolver == InitResolver /\ [][NextResolver]_vars

(***************************************************************************)
(* Spec: a document serialized by json_to_txt and parsed back by           *)
(* txt_to_json                                                             *)
(***************************************************************************)

Category(name, id, enabled, createSubcontext) ==
    [NewCategory(name, id) EXCEPT !.enabled = enabled,
                                  !.createSubcontext = createSubcontext]

DocCategories ==
    {Category("A", "c1", TRUE, FALSE),
     Category("S", "c2", FALSE, TRUE)}

\* an entry of a document: the fields the text form carries vary, the others
\* hold their defaults
Entry(id, displayName, category, keys, enabled, text, loreBiasGroups) ==
    [NewEntry(id, 1600000000) EXCEPT !.displayName = displayName,
                                     !.category = category,
                                     !.keys = keys,
                                     !.enabled = enabled,
                                     !.text = text,
                                     !.loreBiasGroups = loreBiasGroups]

DocEntries ==
    {Entry("e1", "Sword", "c1", <<"sword", "magic sword">>, TRUE, "", <<>>),
     Entry("e2", "Forge", "c2", <<>>, TRUE, "", <<>>),
     Entry("e3", "Smith", "c1", <<"smith">>, TRUE, "----\nSmith\nType: A\nA smith.", <<>>),
     Entry("e4", "Guild", "zz", <<"guild">>, FALSE, "", <<>>),
     Entry("e5", "Tongs", "", <<"tongs">>, TRUE, "",
           <<[phrases |-> <<"hot">>, bias |-> 1, enabled |-> FALSE]>>)}

DocSettings ==
    {<<[key |-> "orderByKeyLocations", value |-> SettingBool(FALSE)]>>,
     <<[key |-> "orderByKeyLocations", value |-> SettingBool(TRUE)],
       [key |-> "level", value |-> SettingInt(3)],
       [key |-> "name", value |-> SettingStr("x")]>>}

Docs ==
    {[lorebookVersion |-> IF Len(s) = 1 THEN 6 ELSE 5,
      entries |-> e,
      categories |-> c,
      settings |-> s] :
        e \in SeqsUpTo(DocEntries, MaxEntries),
        c \in SeqsUpTo(DocCategories, MaxCategories),
        s \in DocSettings}

Init ==
    /\ pc = "serialize"
    /\ doc \in Docs
    /\ reverse_category_map = <<>>
    /\ txt_content = ""
    /\ lines = <<>>
    /\ i = 0
    /\ parser = ParserStart
    /\ now \in Clock
    /\ calls = <<>>
    /\ tool = ToolStart

Next == json_to_txt \/ txt_to_json \/ ParseLine \/ ParseEnd

Spec == Init /\ [][Next]_vars

(***************************************************************************)
(* SpecEntry: the parser on the texts that open one entry and go on with   *)
(* at most MaxEntryLines lines of EntryPool                                *)
(***************************************************************************)

MaxEntryLines == 3

EntryPool ==
    {"Category: Unknown (zz)", "Category: Unknown ()", "Category: A (Unknown)",
     "Category: Unknown", "Title: T", "Enabled: False", "Description: d", "ENTRY #2",
     "SETTINGS"}

EntryTexts ==
    {Join(<<"LORE ENTRIES", "ENTRY #1">> \o q, "\n") : q \in SeqsUpTo(EntryPool, MaxEntryLines)}

InitEntry == \E t \in EntryTexts : ParserInit(t)

SpecEntry == InitEntry /\ [][NextParse]_vars

(***************************************************************************)
(* SpecReuse: one converter instance serializing one document after        *)
(* another                                                                 *)
(***************************************************************************)

MaxReuseEntries == 1

ReuseEntries ==
    {Entry("e1", "Sword", "c1", <<"sword", "magic sword">>, TRUE, "", <<>>),
     Entry("e4", "Guild", "zz", <<"guild">>, FALSE, "", <<>>)}

ReuseDocs ==
    {[lorebookVersion |-> 6,
      entries |-> e,
      categories |-> c,
      settings |-> <<[key |-> "orderByKeyLocations", value |-> SettingBool(FALSE)]>>] :
        e \in SeqsUpTo(ReuseEntries, MaxReuseEntries),
        c \in SeqsUpTo(DocCategories, MaxCategories)}

\* json_to_txt is called again on the same converter: the next file is loaded
\* (the converter's map is the instance's, and stays)
NextDocument ==
    /\ pc = "read"
    /\ \E d \in ReuseDocs : doc' = d
    /\ pc' = "serialize"
    /\ UNCHANGED <<reverse_category_map, txt_content, lines, i, parser, now, calls, tool>>

InitReuse ==
    /\ pc = "serialize"
    /\ doc \in ReuseDocs
    /\ reverse_category_map = <<>>
    /\ txt_content = ""
    /\ lines = <<>>
    /\ i = 0
    /\ parser = ParserStart
    /\ now \in Clock
    /\ calls = <<>>
    /\ tool = ToolStart

NextReuse == json_to_txt \/ NextDocument

SpecReuse == InitReuse /\ [][NextReuse]_vars

(***************************************************************************)
(* SpecTools: the key sanity checker and the key generator on a lorebook   *)
(***************************************************************************)

MaxToolEntries == 2

ToolEntries ==
    {Entry("t1", "Aria", "", <<>>, TRUE, "----\nAria\nType: character\nA bard.", <<>>),
     Entry("t2", "Aria", "", <<"Aria", "bard", "elf", "harp">>, TRUE,
           "----\nAria\nType: character\nA bard.", <<>>),
     Entry("t3", "Old Mill", "", <<"mill">>, TRUE, "----\nOld Mill\nA ruin.", <<>>),
     Entry("t4", "Wolves", "", <<"pack", "fang", "howl", "wolf den">>, TRUE,
           "----\nThe Wolves\nType: race\nPack hunters.", <<>>),
     Entry("t5", "Tower", "", <<"dawnlight", "spire", "high", "stone">>, TRUE,
           "----\nTower of Dawn\nType: location\nHigh.", <<>>),
     Entry("t6", "Old Mill", "", <<"mill", "ruin", "river", "wheel">>, TRUE,
           "----\nOld Mill\nA ruin.", <<>>),
     Entry("t7", "Fair", "", <<"fair", "stall", "crowd", "yearly">>, TRUE,
           "----\nFair\nType: event\nYearly.", <<>>),
     Entry("t8", "Gate", "c1", <<"the", "orc", "owl", "orc", "Room 5", "elf">>, FALSE,
           "----\nGate\nType: location\nThe orc gate.", <<>>)}

\* the limits the reducer is started with (main refuses a limit below 1)
ReducerLimits == {1, 3}

ToolDocs ==
    {[lorebookVersion |-> 5,
      entries |-> e,
      categories |-> <<Category("A", "c1", TRUE, FALSE)>>,
      settings |-> <<[key |-> "orderByKeyLocations", value |-> SettingBool(FALSE)]>>] :
        e \in SeqsUpTo(ToolEntries, MaxToolEntries)}

\* the state in which no tool has started
Idle ==
    /\ doc = <<>>
    /\ reverse_category_map = <<>>
    /\ txt_content = ""
    /\ lines = <<>>
    /\ i = 0
    /\ parser = ParserStart
    /\ now \in Clock
    /\ calls = <<>>

InitTools ==
    /\ pc \in {"check", "generate", "reduce"}
    /\ \E d \in ToolDocs, check_only \in BOOLEAN, limit \in ReducerLimits :
          /\ pc # "check" => ~check_only
          /\ tool = [ToolStart EXCEPT !.lorebook = d, !.check_only = check_only,
                                      !.max_keys = IF pc = "reduce" THEN limit ELSE @]
    /\ Idle

NextTools ==
    \/ CheckEntry \/ CheckReport
    \/ GenerateEntry \/ GenerateSave
    \/ ReduceEntry \/ ReduceSave

SpecTools == InitTools /\ [][NextTools]_vars

(***************************************************************************)
(* SpecClean: clean_generated_keys on the texts put together from at most  *)
(* MaxRawParts pieces of RawPool                                           *)
(***************************************************************************)

MaxRawParts == 3

RawPool == {"mill", "'old ruin'", ", ", "1. ", "- ", "\n", "----", Repeat("x", 26)}

RawTexts == {Join(q, "") : q \in SeqsUpTo(RawPool, MaxRawParts)}

InitClean ==
    /\ pc = "clean"
    /\ \E t \in RawTexts : tool = [ToolStart EXCEPT !.raw_text = t]
    /\ Idle

SpecClean == InitClean /\ [][Clean]_vars

(***************************************************************************)
(* Reading the text: what the lines of the input say, independently of     *)
(* the parser's state                                                      *)
(***************************************************************************)

\* the k-th line (1-based), stripped
LineAt(k) == Strip(lines[k])

\* the text after the first colon of a line, stripped
ValueOf(line) == Strip(DropFirst(line, Find(line, ":")))

Largest(S) == CHOOSE x \in S : \A y \in S : y <= x

Smallest(S) == CHOOSE x \in S : \A y \in S : x <= y

\* the elements of a set of numbers in increasing order
RECURSIVE Ascending(_)
Ascending(S) ==
    IF S = {} THEN <<>> ELSE <<Smallest(S)>> \o Ascending(S \ {Smallest(S)})

IsSectionHeader(k) == LineAt(k) \in {"CATEGORIES", "LORE ENTRIES", "SETTINGS"}

SectionHeadersIn(lo, hi) == {k \in lo..hi : IsSectionHeader(k)}

\* the section in force when line k is read: that of the last section header
\* above it
SectionBefore(k) ==
    IF SectionHeadersIn(1, k - 1) = {} THEN "none"
    ELSE SectionOf(LineAt(Largest(SectionHeadersIn(1, k - 1))))

\* the lines that open a category: Category: lines of the categories section
CategoryHeaders ==
    {k \in 1..Len(lines) : StartsWith(LineAt(k), "Category:") /\ SectionBefore(k) = "categories"}

\* the lines that open an entry: ENTRY # lines of the entries section
EntryHeaders ==
    {k \in 1..Len(lines) : StartsWith(LineAt(k), "ENTRY #") /\ SectionBefore(k) = "entries"}

\* the lines from lo to hi that start with prefix
FieldLines(prefix, lo, hi) == {k \in lo..hi : StartsWith(LineAt(k), prefix)}

\* the last line of the block that the header at line h opens: the line above
\* the next record header or section header
BlockEnd(h) ==
    LET stops == {k \in (h + 1)..Len(lines) :
                     \/ IsSectionHeader(k)
                     \/ StartsWith(LineAt(k), "Category:") /\ SectionBefore(k) = "categories"
                     \/ StartsWith(LineAt(k), "ENTRY #")}
    IN  IF stops = {} THEN Len(lines) ELSE Smallest(stops) - 1

\* the category block at header h has an ID: line; the id it declares
DeclaresId(h) == FieldLines("ID:", h + 1, BlockEnd(h)) # {}

DeclaredId(h) == ValueOf(LineAt(Largest(FieldLines("ID:", h + 1, BlockEnd(h)))))

\* line k is a Category: line read as a field of an open entry
IsEntryCategoryLine(k) ==
    /\ StartsWith(LineAt(k), "Category:")
    /\ SectionBefore(k) = "entries"
    /\ \E e \in EntryHeaders : e < k

(***************************************************************************)
(* Claims                                                                  *)
(***************************************************************************)

\* a document built only from representable fields: ids non-empty, no key
\* with a comma, every entry's category id that of a category of the document
Representable(d) ==
    /\ \A k \in 1..Len(d.entries) :
          /\ d.entries[k].id # ""
          /\ \A x \in 1..Len(d.entries[k].keys) : ~Contains(d.entries[k].keys[x], ",")
          /\ \E c \in 1..Len(d.categories) : d.categories[c].id = d.entries[k].category
    /\ \A c \in 1..Len(d.categories) :
          /\ d.categories[c].id # ""
          /\ d.categories[c].useCategoryDefaults = FALSE
          /\ d.categories[c].categoryDefaults = <<>>
          /\ d.categories[c].categoryBiasGroups = <<>>
          /\ d.categories[c].settings = <<>>

\* two entries equal field by field, lastUpdatedAt (not in the text) aside
SameEntry(e, f) == [e EXCEPT !.lastUpdatedAt = 0] = [f EXCEPT !.lastUpdatedAt = 0]

\* C1: round trip. For every document built only from representable fields,
\* the record parsed from the document's serialized text has the document's
\* version, categories, entries (in order, field by field) and settings.
C1_RoundTrip ==
    (pc = "done" /\ Representable(doc)) =>
        /\ parser.lorebook.lorebookVersion = doc.lorebookVersion
        /\ parser.lorebook.categories = doc.categories
        /\ Len(parser.lorebook.entries) = Len(doc.entries)
        /\ \A k \in 1..Len(doc.entries) : SameEntry(parser.lorebook.entries[k], doc.entries[k])
        /\ DictItems(parser.lorebook.settings) = DictItems(doc.settings)

\* C2: in the record the parser returns, every entry's category is the empty
\* string or the id of exactly one category of the returned categories list.
C2_CategoryResolves ==
    pc = "done" =>
        \A k \in 1..Len(parser.lorebook.entries) :
            \/ parser.lorebook.entries[k].category = ""
            \/ Cardinality({c \in 1..Len(parser.lorebook.categories) :
                              parser.lorebook.categories[c].id =
                                  parser.lorebook.entries[k].category}) = 1

\* C3: whatever the lines contain, the parser raises no exception and its
\* cursor stays within the input.
C3_ParserTotal == pc # "error" /\ ~parser.raised /\ i <= Len(lines)

\* a value that is no integer literal: empty, or with a character that is
\* neither a digit, a sign, an underscore nor blank
NotIntegerLiteral(v) ==
    \/ Strip(v) = ""
    \/ \E k \in 1..Len(v) :
          /\ ~IsDigitChar(CharAt(v, k))
          /\ CharAt(v, k) \notin {"+", "-", "_"} \cup Whitespace

NumericPrefixes == {"Version:", "Search Range:", "Token Budget:", "Budget Priority:"}

\* a Version:, Search Range:, Token Budget: or Budget Priority: line whose
\* value is no integer literal
BadNumericLine(line) ==
    \E p \in NumericPrefixes : StartsWith(line, p) /\ NotIntegerLiteral(DropFirst(line, Len(p)))

C5_ResolverIdempotent ==
    \A k \in 1..(Len(calls) - 1) :
        calls[k + 1].name = calls[k].name =>
            /\ calls[k + 1].before = calls[k].after
            /\ calls[k + 1].id = calls[k].id
            /\ calls[k + 1].after = calls[k + 1].before

\* two calls in a row with the same name, the first of which minted a category
C5_Witness ==
    \E k \in 1..(Len(calls) - 1) :
        /\ calls[k + 1].name = calls[k].name
        /\ Len(calls[k].after) = Len(calls[k].before) + 1

\* the default skeleton of an entry, id and lastUpdatedAt freshly generated
IsDefaultEntry(e) ==
    /\ e.text = ""
    /\ e.displayName = ""
    /\ e.keys = <<>>
    /\ e.searchRange = 1000
    /\ e.enabled = TRUE
    /\ e.forceActivation = FALSE
    /\ e.keyRelative = FALSE
    /\ e.nonStoryActivatable = FALSE
    /\ e.category = ""
    /\ e.loreBiasGroups = <<>>
    /\ e.advancedConditions = <<>>
    /\ e.contextConfig = [prefix |-> "", suffix |-> "\n", tokenBudget |-> 100,
                          reservedTokens |-> 0, budgetPriority |-> 400,
                          trimDirection |-> "trimBottom", insertionType |-> "newline",
                          maximumTrimType |-> "sentence", insertionPosition |-> -1]
    /\ e.id = Uuid(1)
    /\ e.lastUpdatedAt = now

\* C6 as stated: the text that is the single line ENTRY #1 parses to exactly
\* one entry, which is the default skeleton.
C6_BareHeaderDefaults ==
    (pc = "done" /\ lines = <<"ENTRY #1">>) =>
        /\ Len(parser.lorebook.entries) = 1
        /\ IsDefaultEntry(parser.lorebook.entries[1])

\* C6 amended: the text that is the LORE ENTRIES section header followed by
\* the single line ENTRY #1 parses to exactly one entry, which is the default
\* skeleton.
C6_Defaults ==
    (pc = "done" /\ lines = <<"LORE ENTRIES", "ENTRY #1">>) =>
        /\ Len(parser.lorebook.entries) = 1
        /\ IsDefaultEntry(parser.lorebook.entries[1])

\* the parse of LORE ENTRIES, ENTRY #1 has ended with one entry in the output
C6_Witness ==
    /\ pc = "done"
    /\ lines = <<"LORE ENTRIES", "ENTRY #1">>
    /\ Len(parser.lorebook.entries) = 1

\* the value of the last line from lo to hi that starts with prefix is true
\* (any case); dflt when there is no such line
LastFlag(prefix, lo, hi, dflt) ==
    IF FieldLines(prefix, lo, hi) = {} THEN dflt
    ELSE Lower(ValueOf(LineAt(Largest(FieldLines(prefix, lo, hi))))) = "true"

\* C7: when a second Category: line is read in the categories section with no
\* section header since the first, that step appends the first category to
\* the output list with the name of its header and the id, enabled and
\* createSubcontext its own lines set, and opens the second; no step changes a
\* category that is in the output list.
C7_FlushOrdering ==
    [][/\ \A k \in 1..Len(parser.lorebook.categories) :
             /\ Len(parser'.lorebook.categories) >= k
             /\ parser'.lorebook.categories[k] = parser.lorebook.categories[k]
       /\ (/\ pc = "parse"
           /\ i < Len(lines)
           /\ StartsWith(Strip(lines[i + 1]), "Category:")
           /\ parser.current_section = "categories"
           /\ parser.current_category # <<>>
           /\ FieldLines("Category:", 1, i) # {}
           /\ SectionHeadersIn(Largest(FieldLines("Category:", 1, i)), i) = {})
          => LET h == Largest(FieldLines("Category:", 1, i))
                 n == Len(parser.lorebook.categories) + 1
                 first == parser'.lorebook.categories[n]
             IN  /\ Len(parser'.lorebook.categories) = n
                 /\ first.name = ValueOf(LineAt(h))
                 /\ IF FieldLines("ID:", h + 1, i) = {}
                    THEN StartsWith(first.id, "uuid-")
                    ELSE first.id = ValueOf(LineAt(Largest(FieldLines("ID:", h + 1, i))))
                 /\ first.enabled = LastFlag("Enabled:", h + 1, i, TRUE)
                 /\ first.createSubcontext = LastFlag("Creates Subcontext:", h + 1, i, FALSE)
                 /\ parser'.current_category # <<>>
                 /\ parser'.current_category[1].name = ValueOf(Strip(lines[i + 1]))
      ]_vars

\* the second Category: header has just been read: the first category, with
\* the id and the enabled flag its lines set, is in the output list
C7_Witness ==
    /\ pc = "parse"
    /\ i > 0
    /\ StartsWith(LineAt(i), "Category:")
    /\ parser.current_section = "categories"
    /\ parser.current_category # <<>>
    /\ Len(parser.lorebook.categories) = 1
    /\ parser.lorebook.categories[1].id = "c2"
    /\ parser.lorebook.categories[1].enabled = FALSE

\* the output lists hold, in header order, exactly the records the headers of
\* the text opened (the categories also the ones the resolver minted)
AllCommitted ==
    /\ parser.entry_origin = Ascending(EntryHeaders)
    /\ Len(parser.lorebook.entries) = Len(parser.entry_origin)
    /\ SelectSeq(parser.category_origin, LAMBDA h : h > 0) = Ascending(CategoryHeaders)
    /\ Len(parser.lorebook.categories) = Len(parser.category_origin)
    /\ \A k \in 1..Len(parser.category_origin) :
          parser.category_origin[k] > 0 =>
              parser.lorebook.categories[k].name = ValueOf(LineAt(parser.category_origin[k]))

\* the number of elements of the output categories list that a header opened
CommittedCategories == Len(SelectSeq(parser.category_origin, LAMBDA h : h > 0))

\* C8: a section header appends nothing to the output lists and leaves the
\* records in progress as they are; a record in progress is appended only when
\* a header of its own kind is read or the input ends; at the end every record
\* a header opened is in the output once, in header order.
C8_CommitTiming ==
    [][/\ (pc = "parse" /\ i < Len(lines) /\ IsSectionHeader(i + 1))
             => /\ parser'.lorebook = parser.lorebook
                /\ parser'.current_entry = parser.current_entry
                /\ parser'.current_category = parser.current_category
       /\ Len(parser'.lorebook.entries) # Len(parser.lorebook.entries)
             => \/ pc' = "done"
                \/ i + 1 \in EntryHeaders
       /\ CommittedCategories' # CommittedCategories
             => \/ pc' = "done"
                \/ i + 1 \in CategoryHeaders
       /\ pc' = "done" => AllCommitted'
      ]_vars

\* the parse has ended on a text in which a section header was read while a
\* category was in progress and an entry was opened after it
C8_Witness ==
    /\ pc = "done"
    /\ CategoryHeaders # {}
    /\ EntryHeaders # {}
    /\ Len(parser.lorebook.categories) >= 1
    /\ Len(parser.lorebook.entries) >= 1

\* the Category: headers above line k that declare the name
DeclaredAbove(k, name) == {h \in CategoryHeaders : h < k /\ ValueOf(LineAt(h)) = name}

\* C9: when the Category: line of an entry carries a bare name that one
\* Category: line of the categories section declared earlier, the entry's
\* category is the id of that declared category and the record holds exactly
\* one category of that name (none is minted).
C9_BareNameResolves ==
    (/\ pc = "parse"
     /\ i > 0
     /\ IsEntryCategoryLine(i)
     /\ ~Contains(ValueOf(LineAt(i)), "(")
     /\ Cardinality(DeclaredAbove(i, ValueOf(LineAt(i)))) = 1)
        => LET name == ValueOf(LineAt(i))
               h == CHOOSE h \in DeclaredAbove(i, name) : TRUE
               listed == {c \in 1..Len(parser.lorebook.categories) :
                             parser.lorebook.categories[c].name = name}
               pending == IF /\ parser.current_category # <<>>
                             /\ parser.current_category[1].name = name
                          THEN 1 ELSE 0
           IN  /\ DeclaresId(h) => parser.current_entry[1].category = DeclaredId(h)
               /\ Cardinality(listed) + pending = 1

\* the id between the parentheses of a Category: Name (id) value
ParenId(v) == Strip(Split(Split(v, "(")[2], ")")[1])

\* the Category: lines of the entry whose Title: line is line k
CategoryLinesOf(k) == FieldLines("Category:", Largest({e \in EntryHeaders : e < k}), k)

\* C10: when a Title: line is handled for an entry whose preceding
\* Category: Name (id) line carries the id a Category:/ID: block declared
\* earlier, the entry's text is ----, the title, Type: and the name of that
\* category, then the description.
C10_TypeReconstruction ==
    (/\ pc = "parse"
     /\ i > 0
     /\ StartsWith(LineAt(i), "Title:")
     /\ SectionBefore(i) = "entries"
     /\ \E e \in EntryHeaders : e < i
     /\ CategoryLinesOf(i) # {}
     /\ Contains(ValueOf(LineAt(Largest(CategoryLinesOf(i)))), "(")
     /\ \E h \in CategoryHeaders :
           /\ h < i
           /\ DeclaresId(h)
           /\ DeclaredId(h) = ParenId(ValueOf(LineAt(Largest(CategoryLinesOf(i))))))
        => LET id == ParenId(ValueOf(LineAt(Largest(CategoryLinesOf(i)))))
               parts == SplitN(parser.current_entry[1].text, "\n", 3)
           IN  /\ Len(parts) = 4
               /\ parts[1] = "----"
               /\ parts[2] = ValueOf(LineAt(i))
               /\ \E h \in CategoryHeaders :
                     /\ h < i
                     /\ DeclaresId(h)
                     /\ DeclaredId(h) = id
                     /\ parts[3] = "Type: " \o ValueOf(LineAt(h))
               /\ (i < Len(lines) /\ StartsWith(LineAt(i + 1), "Description:"))
                     => parts[4] = ValueOf(LineAt(i + 1))

(***************************************************************************)
(* Reading the serialized text of a document                               *)
(***************************************************************************)

\* s holds sub as a run of consecutive characters
HasSubstring(s, sub) ==
    \E k \in 1..(Len(s) - Len(sub) + 1) : SubSeq(s, k, k + Len(sub) - 1) = sub

\* the header line of the k-th entry block, of the k-th category block
EntryHeader(k) == Ascending(EntryHeaders)[k]

CategoryHeader(k) == Ascending(CategoryHeaders)[k]

\* the lines of the CONTENT block of the entry whose header is line h: those
\* between its CONTENT: line and its CONTEXT CONFIGURATION: line
ContentOf(h) ==
    LET c == Smallest(FieldLines("CONTENT:", h, BlockEnd(h)))
        x == Smallest(FieldLines("CONTEXT CONFIGURATION:", c, BlockEnd(h)))
    IN  (c + 1)..(x - 1)

\* the four parts of an entry text: ----, title, Type: line, description
TextParts(text) == SplitN(text, "\n", 3)

\* the text is ----, a title, a Type: line and a description
IsTypedText(text) ==
    /\ Len(TextParts(text)) = 4
    /\ TextParts(text)[1] = "----"
    /\ StartsWith(TextParts(text)[3], "Type: ")

\* C11: for an entry whose text is ----, title, Type: t, description, the
\* serialized CONTENT block has the line Title: title and a Description: line
\* carrying the description, and no line of the block shows Type: t.
C11_TypeNotRendered ==
    (pc = "parse" /\ i = 0) =>
        \A k \in 1..Len(doc.entries) :
            IsTypedText(doc.entries[k].text) =>
                LET parts == TextParts(doc.entries[k].text)
                    block == ContentOf(EntryHeader(k))
                IN  /\ \E l \in block : LineAt(l) = "Title: " \o parts[2]
                    /\ \E l \in block : /\ StartsWith(LineAt(l), "Description:")
                                        /\ ValueOf(LineAt(l)) = parts[4]
                    /\ \A l \in block : ~HasSubstring(lines[l], parts[3])

\* the name of the first category of the document with the id, "" when none
NameOfId(d, id) ==
    LET hits == {c \in 1..Len(d.categories) : d.categories[c].id = id}
    IN  IF hits = {} THEN "" ELSE d.categories[Smallest(hits)].name

\* C12: for an entry whose text is ----, title, Type: name of its category,
\* description (one non-empty line) and whose category the document declares,
\* the entry parsed from the serialized text has a text with the same title
\* and the same description.
C12_TextRoundTrip ==
    pc = "done" =>
        \A k \in 1..Len(doc.entries) :
            LET parts == TextParts(doc.entries[k].text)
            IN  (/\ IsTypedText(doc.entries[k].text)
                 /\ NameOfId(doc, doc.entries[k].category) # ""
                 /\ parts[3] = "Type: " \o NameOfId(doc, doc.entries[k].category)
                 /\ parts[4] # ""
                 /\ ~Contains(parts[4], "\n"))
                    => /\ Len(parser.lorebook.entries) >= k
                       /\ Len(TextParts(parser.lorebook.entries[k].text)) = 4
                       /\ TextParts(parser.lorebook.entries[k].text)[2] = parts[2]
                       /\ TextParts(parser.lorebook.entries[k].text)[4] = parts[4]

\* C13: a category whose createSubcontext is true serializes with a Creates
\* Subcontext: Yes line and parses back with createSubcontext true; a category
\* block without that line parses to createSubcontext false.
C13_SubcontextByPresence ==
    pc = "done" =>
        \A c \in 1..Len(doc.categories) :
            LET h == CategoryHeader(c)
                marked == FieldLines("Creates Subcontext:", h + 1, BlockEnd(h))
            IN  /\ Len(parser.lorebook.categories) >= c
                /\ doc.categories[c].createSubcontext
                      => /\ \E l \in marked : LineAt(l) = "Creates Subcontext: Yes"
                         /\ parser.lorebook.categories[c].createSubcontext = TRUE
                /\ marked = {} => parser.lorebook.categories[c].createSubcontext = FALSE

\* the name the document itself gives the category id, Unknown when it
\* declares no category with the id
NameInDocument(d, id) ==
    LET hits == {c \in 1..Len(d.categories) : d.categories[c].id = id}
    IN  IF hits = {} THEN "Unknown" ELSE d.categories[Largest(hits)].name

\* C14: the text serialized from a document carries, for every entry, the
\* Category: line made from the document alone: the name the document gives
\* the entry's category id, Unknown when the document declares no category
\* with that id, whatever the converter serialized before.
C14_NoStateCrossesDocuments ==
    pc = "read" =>
        \A k \in 1..Len(doc.entries) :
            HasSubstring(txt_content,
                         "\nCategory: " \o NameInDocument(doc, doc.entries[k].category)
                             \o " (" \o doc.entries[k].category \o ")\n")

\* the entry Category: lines of the text whose parentheses hold the id Unknown
SentinelAsId ==
    {k \in 1..Len(lines) :
        /\ IsEntryCategoryLine(k)
        /\ Contains(ValueOf(LineAt(k)), "(")
        /\ ParenId(ValueOf(LineAt(k))) = "Unknown"}

BetweenTitleAndDescription(k) ==
    \E t \in 1..(k - 1) : \E d \in (k + 1)..Len(lines) :
        /\ StartsWith(LineAt(t), "Title:")
        /\ SectionBefore(t) = "entries"
        /\ \E e \in EntryHeaders : e < t
        /\ StartsWith(LineAt(d), "Description:")
        /\ \A m \in (t + 1)..(d - 1) :
              /\ ~StartsWith(LineAt(m), "Description:")
              /\ ~StartsWith(LineAt(m), "Title:")
              /\ ~LookaheadStops(lines[m])

\* C20: reading a line that lies between an entry's Title: line and its
\* Description: line changes no field of the open entry, of the version, of
\* the current section or of any other record.
C20_BetweenLinesSkipped ==
    [][(pc = "parse" /\ i < Len(lines) /\ BetweenTitleAndDescription(i + 1))
           => parser' = parser]_vars

\* the entries of the document whose category id is not empty and is that of
\* no category of the document
Unresolved(d) ==
    {k \in 1..Len(d.entries) :
        /\ d.entries[k].category # ""
        /\ \A c \in 1..Len(d.categories) : d.categories[c].id # d.entries[k].category}

\* the entry Category: line of the block whose header is line h
CategoryLineOf(h) == LineAt(Smallest(FieldLines("Category:", h + 1, BlockEnd(h))))

CleanKey(key) == ~Contains(key, ",") /\ Strip(key) = key

\* the Activation Keys: line of the block whose header is line h
KeysLineOf(h) == LineAt(Smallest(FieldLines("Activation Keys:", h + 1, BlockEnd(h))))

\* C18: the line Activation Keys: sword, magic sword parses to the two keys
\* sword and magic sword, and for every key sequence of an entry, the empty
\* one included, whose keys are clean, the entry parsed from the serialized
\* text has the same sequence of keys.
C18_KeysKeepSequence ==
    pc = "done" =>
        \A k \in 1..Len(doc.entries) :
            (\A x \in 1..Len(doc.entries[k].keys) : CleanKey(doc.entries[k].keys[x]))
                => /\ Len(parser.lorebook.entries) >= k
                   /\ parser.lorebook.entries[k].keys = doc.entries[k].keys
                   /\ KeysLineOf(EntryHeader(k)) = "Activation Keys: sword, magic sword"
                         => parser.lorebook.entries[k].keys = <<"sword", "magic sword">>

\* the text before the first colon of a line, stripped
KeyOf(line) == Strip(SubSeq(line, 1, Find(line, ":") - 1))

\* the settings value inferred from a literal: true/false in any case a
\* boolean, all digits an integer, anything else the string
Inferred(value) ==
    IF Lower(value) = "true" THEN SettingBool(TRUE)
    ELSE IF Lower(value) = "false" THEN SettingBool(FALSE)
    ELSE IF IsDigit(value) THEN SettingInt(IntValue(value))
    ELSE SettingStr(value)

\* C17: in the settings section, reading a line of the shape key: value sets
\* settings[key] to the value inferred from the literal, changes nothing
\* else, and parsing goes on.
C17_SettingsInference ==
    [][(/\ pc = "parse"
        /\ i < Len(lines)
        /\ SectionBefore(i + 1) = "settings"
        /\ Contains(LineAt(i + 1), ":"))
           => /\ pc' = "parse"
              /\ parser' = [parser EXCEPT !.lorebook.settings =
                                DictSet(@, KeyOf(LineAt(i + 1)),
                                        Inferred(ValueOf(LineAt(i + 1))))]]_vars

\* the text has no line that starts with Type:
NoTypeLine(text) ==
    \A k \in 1..Len(Split(text, "\n")) : ~StartsWith(Split(text, "\n")[k], "Type:")

\* the outcomes the loop of check_lorebook records
CheckerOutcomes == {"skipped", "ok", "issues"}

\* the outcomes the loop of the generator's process_lorebook records
GeneratorOutcomes == {"enough", "generated"}

\* the outcomes the loop of the reducer's process_lorebook records
ReducerOutcomes == {"reduced", "kept"}

\* C19: an entry whose text has no Type: line has an empty decoded type and
\* is left out by both tools, whatever its number of keys: the sanity checker
\* hands it on unmodified, and the key generator neither runs the generation
\* for it nor replaces its keys.
C19_UntypedEntriesExcluded ==
    \A k \in 1..Len(tool.processed_entries) :
        NoTypeLine(tool.lorebook.entries[k].text) =>
            /\ extract_entry_info(tool.lorebook.entries[k]).entry_type = ""
            /\ generator_extract_entry_info(tool.lorebook.entries[k]).type = ""
            /\ tool.outcome[k] \in CheckerOutcomes =>
                   tool.processed_entries[k] = tool.lorebook.entries[k]
            /\ tool.outcome[k] \in GeneratorOutcomes =>
                   /\ tool.outcome[k] # "generated"
                   /\ tool.processed_entries[k].keys = tool.lorebook.entries[k].keys

\* line k is a boundary for the lookahead of a Title: line: it starts with =
\* or -, is a section header, or opens a later entry's block
IsBoundary(k) ==
    \/ StartsWith(LineAt(k), "=")
    \/ StartsWith(LineAt(k), "-")
    \/ IsSectionHeader(k)
    \/ StartsWith(LineAt(k), "ENTRY #")

\* the Description: lines that the lookahead from the Title: line t may
\* answer with: no boundary and no other Description: line lies between
DescriptionsInReach(t) ==
    {d \in (t + 1)..Len(lines) :
        /\ StartsWith(LineAt(d), "Description:")
        /\ \A m \in (t + 1)..(d - 1) :
              ~IsBoundary(m) /\ ~StartsWith(LineAt(m), "Description:")}

\* the description held by an entry text built by the Title: line
DescriptionOf(text) == Split(text, "\n")[4]

\* line k is a Title: line read as a field of an open entry
IsEntryTitleLine(k) ==
    /\ StartsWith(LineAt(k), "Title:")
    /\ SectionBefore(k) = "entries"
    /\ \E e \in EntryHeaders : e < k

\* C21: the description that a Title: line gives its entry is empty or is
\* that of a Description: line met before any boundary: a line starting with
\* = or -, a section header, or the header of a later entry.
C21_LookaheadBounded ==
    [][(pc = "parse" /\ i < Len(lines) /\ IsEntryTitleLine(i + 1) /\ ~parser'.raised)
           => \/ DescriptionOf(parser'.current_entry[1].text) = ""
              \/ \E d \in DescriptionsInReach(i + 1) :
                     DescriptionOf(parser'.current_entry[1].text) = ValueOf(LineAt(d))]_vars

\* C29: the lines of an entry's conditions and bias groups change no field of
\* the entry itself: after a document is serialized and parsed back, every
\* entry's enabled flag is the one of its own Enabled: line, that of the
\* document's entry, whatever the enabled flags of its bias groups.
C29_BiasLinesLeaveEntry ==
    (pc = "done" /\ doc # <<>> /\ ~parser.raised) =>
        /\ Len(parser.lorebook.entries) = Len(doc.entries)
        /\ \A k \in 1..Len(doc.entries) :
              parser.lorebook.entries[k].enabled = doc.entries[k].enabled

\* every outcome recorded so far is one of the set: the tool that runs is
\* the one that records these outcomes
ToolRecords(outcomes) == \A k \in 1..Len(tool.outcome) : tool.outcome[k] \in outcomes

\* entry e with the keys and the lastUpdatedAt of entry f
WithKeysOf(e, f) == [e EXCEPT !.keys = f.keys, !.lastUpdatedAt = f.lastUpdatedAt]

\* C22: the key reducer and the key sanity checker touch only keys and
\* lastUpdatedAt: every processed entry equals the input entry at the same
\* position in every other field, and a lorebook they write has as many
\* entries as the input, in the same order, with the input's version,
\* categories and settings.
C22_OnlyKeysAndStamp ==
    ToolRecords(CheckerOutcomes \cup ReducerOutcomes) =>
        /\ \A k \in 1..Len(tool.processed_entries) :
              WithKeysOf(tool.processed_entries[k], tool.lorebook.entries[k])
                  = tool.lorebook.entries[k]
        /\ tool.output # <<>> =>
              /\ Len(tool.output[1].entries) = Len(tool.lorebook.entries)
              /\ \A k \in 1..Len(tool.lorebook.entries) :
                    WithKeysOf(tool.output[1].entries[k], tool.lorebook.entries[k])
                        = tool.lorebook.entries[k]
              /\ tool.output[1].lorebookVersion = tool.lorebook.lorebookVersion
              /\ tool.output[1].categories = tool.lorebook.categories
              /\ tool.output[1].settings = tool.lorebook.settings

\* a lorebook of two entries has been written by the reducer, which cut the
\* keys of one entry and left the other alone
C22_Witness ==
    /\ tool.output # <<>>
    /\ Len(tool.lorebook.entries) = 2
    /\ tool.lorebook.categories # <<>>
    /\ \E k \in 1..2 : tool.outcome[k] = "reduced"
                        /\ tool.output[1].entries[k].keys # tool.lorebook.entries[k].keys
    /\ \E k \in 1..2 : tool.outcome[k] = "kept"

\* C23: an entry that the key generator, the key reducer or the key sanity
\* checker hands on with keys other than the input entry's carries the
\* timestamp of the step that replaced the keys.
C23_ChangedKeysAreStamped ==
    \A k \in 1..Len(tool.processed_entries) :
        tool.processed_entries[k].keys # tool.lorebook.entries[k].keys =>
            tool.processed_entries[k].lastUpdatedAt = now

\* the reducer has cut the keys of an entry whose timestamp was an older one
C23_Witness ==
    \E k \in 1..Len(tool.processed_entries) :
        /\ tool.outcome[k] = "reduced"
        /\ tool.processed_entries[k].keys # tool.lorebook.entries[k].keys
        /\ tool.lorebook.entries[k].lastUpdatedAt # now

\* the entry the reducer was given and the entry it handed on, for the k-th
\* processed entry
Given(k) == tool.lorebook.entries[k]

HandedOn(k) == tool.processed_entries[k]

\* the injections from the positions of kept into the positions of original
\* that send every kept key to an occurrence of the same key
Occurrences(kept, original) ==
    {f \in [1..Len(kept) -> 1..Len(original)] :
        /\ \A p \in 1..Len(kept) : original[f[p]] = kept[p]
        /\ \A p, q \in 1..Len(kept) : p # q => f[p] # f[q]}

\* C24: with a limit of 1 or more, the entry the reducer hands on has at most
\* max_keys keys, each of them an occurrence of its own of a key of the
\* input entry, and an entry that has at most max_keys keys is handed on
\* unchanged.
C24_ReductionBound ==
    (ToolRecords(ReducerOutcomes) /\ tool.max_keys >= 1) =>
        \A k \in 1..Len(tool.processed_entries) :
            /\ Len(HandedOn(k).keys) <= tool.max_keys
            /\ Occurrences(HandedOn(k).keys, Given(k).keys) # {}
            /\ Len(Given(k).keys) <= tool.max_keys => HandedOn(k) = Given(k)

\* the reducer has cut an entry down to max_keys keys, among them both
\* occurrences of a key the entry held twice, and has handed on another
\* entry unchanged
C24_Witness ==
    /\ \E k \in 1..Len(tool.processed_entries) :
          /\ tool.outcome[k] = "reduced"
          /\ Len(HandedOn(k).keys) = tool.max_keys
          /\ \E p, q \in 1..Len(HandedOn(k).keys) :
                p # q /\ HandedOn(k).keys[p] = HandedOn(k).keys[q]
    /\ \E k \in 1..Len(tool.processed_entries) :
          tool.outcome[k] = "kept" /\ Given(k).keys # <<>>

\* the score of the key at position n of the k-th input entry
ScoreAt(k, n) == score(Given(k).keys[n], Given(k).text)

\* position m of the k-th input entry ranks before position n: its key
\* scores higher, or as high and stands earlier
RanksBefore(k, m, n) ==
    \/ ScoreAt(k, m) > ScoreAt(k, n)
    \/ ScoreAt(k, m) = ScoreAt(k, n) /\ m < n

\* C25: of an entry with more than max_keys keys the reducer keeps max_keys
\* keys: the highest-scoring ones, listed by falling score, a key ranking
\* before every key of the same score that stands later in the input list,
\* kept or not.
C25_PriorityOrder ==
    ToolRecords(ReducerOutcomes) =>
        \A k \in 1..Len(tool.processed_entries) :
            Len(Given(k).keys) > tool.max_keys =>
                /\ Len(HandedOn(k).keys) = tool.max_keys
                /\ \E f \in Occurrences(HandedOn(k).keys, Given(k).keys) :
                      /\ \A p, q \in 1..Len(HandedOn(k).keys) :
                            p < q => RanksBefore(k, f[p], f[q])
                      /\ \A m \in 1..Len(Given(k).keys) :
                            (\A p \in 1..Len(HandedOn(k).keys) : f[p] # m) =>
                                \A p \in 1..Len(HandedOn(k).keys) : RanksBefore(k, f[p], m)

\* the reducer has cut an entry in which a key that was dropped scores as
\* high as a different key that was kept
C25_Witness ==
    \E k \in 1..Len(tool.processed_entries) :
        /\ tool.outcome[k] = "reduced"
        /\ \E m, n \in 1..Len(Given(k).keys) :
              /\ ScoreAt(k, m) = ScoreAt(k, n)
              /\ Given(k).keys[m] # Given(k).keys[n]
              /\ \E p \in 1..Len(HandedOn(k).keys) : HandedOn(k).keys[p] = Given(k).keys[m]
              /\ \A p \in 1..Len(HandedOn(k).keys) : HandedOn(k).keys[p] # Given(k).keys[n]

\* one of the two keys holds the other, or they are equal, in lower case
Overlap(a, b) ==
    \/ Lower(a) = Lower(b)
    \/ ContainsSub(Lower(a), Lower(b))
    \/ ContainsSub(Lower(b), Lower(a))

\* C26: the sanity checker only appends keys, and only keys that are not
\* redundant: the keys of the input entry are the first keys of the entry
\* handed on, in the same order, and no key after them equals, holds or is
\* held by a key that stands before it, compared without regard to case.
C26_AppendsNonRedundant ==
    ToolRecords(CheckerOutcomes) =>
        \A k \in 1..Len(tool.processed_entries) :
            /\ Len(HandedOn(k).keys) >= Len(Given(k).keys)
            /\ SubSeq(HandedOn(k).keys, 1, Len(Given(k).keys)) = Given(k).keys
            /\ \A p \in (Len(Given(k).keys) + 1)..Len(HandedOn(k).keys) :
                  \A q \in 1..(p - 1) : ~Overlap(HandedOn(k).keys[p], HandedOn(k).keys[q])

\* the sanity checker has appended two keys to an entry that had keys, and
\* has appended none to an entry whose title names a part of a key it has
C26_Witness ==
    /\ \E k \in 1..Len(tool.processed_entries) :
          /\ tool.outcome[k] = "issues"
          /\ Given(k).keys # <<>>
          /\ Len(HandedOn(k).keys) = Len(Given(k).keys) + 2
    /\ \E k \in 1..Len(tool.processed_entries) :
          /\ tool.outcome[k] = "issues"
          /\ HandedOn(k).keys = Given(k).keys

\* the first line that clean_generated_keys works on: that of the text
\* before the first ----, stripped
FirstLineOf(raw_text) ==
    LET cut == IF HasSubstring(Strip(raw_text), "----")
               THEN SubSeq(Strip(raw_text), 1, FindSubFrom(Strip(raw_text), "----", 1) - 1)
               ELSE Strip(raw_text)
    IN  Strip(Split(Strip(cut), "\n")[1])

\* C27: clean_generated_keys on a text whose first line holds no comma does
\* not raise, and it returns one key when that line has 1 to 50 characters.
C27_NoCommaOneKey ==
    (tool.cleaned # <<>> /\ ~Contains(FirstLineOf(tool.raw_text), ",")) =>
        /\ ~tool.cleaned[1].raised
        /\ Len(FirstLineOf(tool.raw_text)) \in 1..50 => Len(tool.cleaned[1].keys) = 1

\* the generation that ran for the k-th entry failed or was skipped: the
\* API call raised, the cleaning of its text raised, or the user answered 3
FellBack(k) ==
    /\ tool.attempts[k] # <<>>
    /\ \/ ~tool.attempts[k][1].result.ok
       \/ clean_generated_keys(tool.attempts[k][1].result.text).raised
       \/ \E p \in 1..Len(tool.attempts[k][1].answers) : tool.attempts[k][1].answers[p] = "3"

\* C28: when the generation for an entry raises or the user skips the entry,
\* the entry handed on has the key sequence of the input entry, the loop goes
\* on, and the lorebook written holds the entry with these keys.
C28_FallbackKeepsKeys ==
    \A k \in 1..Len(tool.processed_entries) :
        FellBack(k) =>
            /\ HandedOn(k).keys = Given(k).keys
            /\ pc \in {"generate", "done"}
            /\ pc = "done" =>
                  /\ tool.output # <<>>
                  /\ Len(tool.output[1].entries) = Len(tool.lorebook.entries)
                  /\ tool.output[1].entries[k].keys = Given(k).keys

\* the generation has failed for the first entry, which had a key, has been
\* skipped by the user for the second, and the lorebook has been written
C28_Witness ==
    /\ pc = "done"
    /\ Len(tool.processed_entries) = 2
    /\ FellBack(1) /\ tool.attempts[1][1].answers = <<>> /\ Given(1).keys # <<>>
    /\ FellBack(2) /\ tool.attempts[2][1].answers # <<>>

\* the outcomes that a tool counts and reports as a modified or updated entry
ModifiedOutcomes == {"issues", "generated", "reduced"}

\* the entries that a tool has counted as fixed, updated or modified
CountedAsModified == tool.entries_fixed + tool.entries_updated + tool.entries_modified

\* the positions of the written lorebook whose keys are those of the input
SameKeys == {k \in 1..Len(tool.output[1].entries) :
                tool.output[1].entries[k].keys = Given(k).keys}

\* C30: a tool restamps an entry only if it changed its keys: an entry of the
\* written lorebook whose key sequence equals the input entry's keeps the
\* input's lastUpdatedAt and is not counted or reported as modified or
\* updated, whichever of the reducer, the sanity checker and the generator
\* wrote it.
C30_UnchangedKeysKeepStamp ==
    (pc = "done" /\ tool.output # <<>>) =>
        /\ \A k \in SameKeys :
              /\ tool.output[1].entries[k].lastUpdatedAt = Given(k).lastUpdatedAt
              /\ tool.outcome[k] \notin ModifiedOutcomes
        /\ CountedAsModified <= Len(tool.output[1].entries) - Cardinality(SameKeys)


====
